---- MODULE Spec2Model ----
(***************************************************************************)
(* A model of the ZKTeco attendance client of src-tauri/src/zkteco_client.rs *)
(* (struct ZKClient and connect_and_fetch_attendance).                      *)
(*                                                                         *)
(* Two specifications share the session fields session_id and reply_id:    *)
(*   SpecCodec  the framing codec as pure functions (calc_checksum,        *)
(*              create_header, create_tcp_top) applied to drawn inputs;    *)
(*   Spec       one run of connect_and_fetch_attendance against a device   *)
(*              that answers with frames of its own choosing.              *)
(***************************************************************************)
EXTENDS Integers, Sequences, FiniteSets, TLC

\* the session fields of struct ZKClient (zkteco_client.rs:61-65)
VARIABLES session_id, reply_id

\* the codec's inputs and outputs: a command code, a byte sequence (the
\* command_string of create_header, the data of calc_checksum), the packet
\* create_header built, its outer frame, the accumulator of calc_checksum
\* just before the bitwise NOT, its result, and which function was applied
VARIABLES in_command, in_data, packet, top, acc, cksum, cpc

\* the password given to make_commkey, as the two 16-bit halves <<hi, lo>>
\* of the u32, and the bytes it returned
VARIABLES in_password, commkey

\* one run of connect_and_fetch_attendance: where the run stands (stage,
\* and pc inside a read), the items of the TCP stream the device has sent
\* and the client has not read, the result of fetch, record_count of
\* read_sizes, the state of read_chunks, the history the properties read,
\* and the departures of the device from the protocol so far
VARIABLES stage, pc, rx, result, record_count, bulk, hist, faults

\* the decoding of a blob in get_attendance and get_users: which of the two
\* runs and where it stands (dpc), the length of the blob (data.len()), the
\* u32 of its first four bytes, the record count read_sizes reported as the
\* i32 the device sent, the record size chosen, the stride of the loop, its
\* offset, and the offsets of the records pushed, in order
VARIABLES dpc, data_len, total_size, expected_records, record_size, actual_record_size,
          offset, taken

\* decode_time: the position of the call, its argument t as the u32
\* <<high 16 bits, low 16 bits>>, the time zone of the host, and the
\* DateTime returned
VARIABLES tpc, timestamp, zone, dt

\* the naming of one attendance record in get_attendance: the position
\* (npc), the users given, the record (its format, its uid, its user_id as
\* the number of a 16-byte record and as the text of a 40-byte one), the
\* lookup table built and the name found
VARIABLES npc, users, record, user_lookup, user_name

\* scan_network (device_scanner.rs): the position of the scan, the first
\* three octets of the local address, the ports that accept a connection at
\* each address, the subnets listed, the address of each task spawned, the
\* state of each task, the permits left in the semaphore, the devices
\* returned, and the addresses whose task panics
VARIABLES spc, local_parts, net, subnets_to_scan, handles, tasks, permits, biometric_devices,
          panics

\* ------------------------------------------------------------------------
\* Protocol constants (zkteco_client.rs:29-59)
\* ------------------------------------------------------------------------
USHRT_MAX == 65535

CMD_CONNECT == 1000
CMD_EXIT == 1001
CMD_ENABLEDEVICE == 1002
CMD_DISABLEDEVICE == 1003
CMD_USERTEMP_RRQ == 9
CMD_ATTLOG_RRQ == 13
CMD_PREPARE_DATA == 1500
CMD_DATA == 1501
CMD_FREE_DATA == 1502
CMD_ACK_OK == 2000
CMD_ACK_ERROR == 2001
CMD_ACK_UNAUTH == 2005
CMD_AUTH == 1102
CMD_GET_FREE_SIZES == 50
CMD_DATA_WRRQ == 1503
CMD_DATA_RDY == 1504

MACHINE_PREPARE_DATA_1 == 20560
MACHINE_PREPARE_DATA_2 == 32130

FCT_USER == 5

\* ------------------------------------------------------------------------
\* Bounds of the model
\* ------------------------------------------------------------------------
\* longest byte sequence drawn as an input of the codec
MaxLen == 4

\* ------------------------------------------------------------------------
\* Bytes and little-endian integers
\* ------------------------------------------------------------------------
\* u16::to_le_bytes
LE16(x) == <<x % 256, (x \div 256) % 256>>

\* u32::to_le_bytes / i32::to_le_bytes of a non-negative value
LE32(x) == <<x % 256, (x \div 256) % 256, (x \div 65536) % 256, (x \div 16777216) % 256>>

\* u16::from_le_bytes([b[i], b[i+1]]) with the source's 0-based index i
U16At(b, i) == b[i + 1] + 256 * b[i + 2]

\* ------------------------------------------------------------------------
\* calc_checksum (zkteco_client.rs:95-125)
\* ------------------------------------------------------------------------
\* lines 102-104: if checksum > USHRT_MAX { checksum -= USHRT_MAX }
FoldOnce(checksum) ==
    IF checksum > USHRT_MAX THEN checksum - USHRT_MAX ELSE checksum

\* lines 99-106: the loop over little-endian u16 words, i the 0-based index;
\* yields <<i, checksum>> at loop exit
RECURSIVE WordLoop(_, _, _)
WordLoop(data, i, checksum) ==
    IF i + 1 < Len(data)
    THEN WordLoop(data, i + 2, FoldOnce(checksum + U16At(data, i)))
    ELSE <<i, checksum>>

\* an odd-byte step that forgets the trailing byte
OddByte_skip(data, i, checksum) == checksum

\* lines 109-111: the trailing odd byte
OddByte(data, i, checksum) ==
    IF i < Len(data) THEN checksum + data[i + 1] ELSE checksum

\* lines 113-115: while checksum > USHRT_MAX { checksum -= USHRT_MAX }
RECURSIVE FoldDown(_)
FoldDown(checksum) ==
    IF checksum > USHRT_MAX THEN FoldDown(checksum - USHRT_MAX) ELSE checksum

\* line 118: !checksum on an i32 in 0 .. 2^31-1, bit by bit on the two
\* 16-bit halves, read back as a two's-complement value
Not32(checksum) ==
    LET lo  == checksum % 65536
        hi  == checksum \div 65536
        nlo == 65535 - lo
        nhi == 65535 - hi
    IN  IF nhi >= 32768 THEN (nhi - 65536) * 65536 + nlo ELSE nhi * 65536 + nlo

\* a negative-value loop that adds 2^16 instead of USHRT_MAX
AddWhileNegative_wrap16(checksum) ==
    IF checksum < 0 THEN checksum + 65536 ELSE checksum

\* lines 120-122: while checksum < 0 { checksum += USHRT_MAX }
RECURSIVE AddWhileNegative(_)
AddWhileNegative(checksum) ==
    IF checksum < 0 THEN AddWhileNegative(checksum + USHRT_MAX) ELSE checksum

\* lines 96-115: the accumulator just before the bitwise NOT
calc_sum(data) ==
    LET w == WordLoop(data, 0, 0)
    IN  FoldDown(OddByte(data, w[1], w[2]))

\* lines 95-125; the last line is `checksum as u16`
calc_checksum(data) ==
    AddWhileNegative(Not32(calc_sum(data))) % 65536

\* ------------------------------------------------------------------------
\* create_header and create_tcp_top (zkteco_client.rs:128-162)
\* ------------------------------------------------------------------------
\* an increment that forgets the wrap at USHRT_MAX
next_reply_id_nowrap(r) == (r + 1) % 65536

\* no increment: the packet repeats the current reply_id
next_reply_id_same(r) == r

\* lines 138-141: wrapping_add(1), then wrapping_sub(USHRT_MAX) when the
\* incremented u16 is >= USHRT_MAX
next_reply_id(r) ==
    LET n == (r + 1) % 65536
    IN  IF n >= USHRT_MAX THEN (n - USHRT_MAX) % 65536 ELSE n

\* a header whose checksum is taken over the outgoing reply-id
header_checksum_outgoing(cmd, sid, rid, command_string) ==
    calc_checksum(LE16(cmd) \o LE16(0) \o LE16(sid) \o LE16(next_reply_id(rid))
                  \o command_string)

\* lines 129-136: buf holds the session's current reply_id when the checksum
\* is taken
header_checksum(cmd, sid, rid, command_string) ==
    calc_checksum(LE16(cmd) \o LE16(0) \o LE16(sid) \o LE16(rid) \o command_string)

\* lines 128-151, reading self.session_id and self.reply_id
create_header(cmd, command_string) ==
    LE16(cmd)
    \o LE16(header_checksum(cmd, session_id, reply_id, command_string))
    \o LE16(session_id)
    \o LE16(next_reply_id(reply_id))
    \o command_string

\* lines 154-162
create_tcp_top(pkt) ==
    LE16(MACHINE_PREPARE_DATA_1) \o LE16(MACHINE_PREPARE_DATA_2) \o LE32(Len(pkt)) \o pkt

\* ------------------------------------------------------------------------
\* SpecCodec: the codec applied to drawn inputs
\* ------------------------------------------------------------------------
\* byte values that make the word sum cross USHRT_MAX, stay below it, and
\* spell the CMD_CONNECT packet of a new session
ByteVals == {0, 1, 3, 232, 254, 255}

ByteSeqs(n) == UNION {[1..k -> ByteVals] : k \in 0..n}

\* cmd=1000, checksum=0, session_id=0, reply_id=65534, no payload
ConnectPacket == <<232, 3, 0, 0, 0, 0, 254, 255>>

CodecData == ByteSeqs(MaxLen) \cup {ConnectPacket}

\* reply-ids a response can leave in the session: any u16, here the ends
CodecReplyIds == {0, 1, 65533, 65534, 65535}

CodecSessionIds == {0, 4660}

CodecCommands == {CMD_CONNECT, CMD_DATA_WRRQ}

timeVars == <<tpc, timestamp, zone, dt>>

nameVars == <<npc, users, record, user_lookup, user_name>>

NoRecord == [fmt |-> 0, uid |-> 0, id |-> 0, text |-> ""]

\* HashMap::new() (line 1084)
EmptyMap == [key \in {} |-> ""]

\* no record is being named
NameIdle ==
    /\ npc = "idle"
    /\ users = <<>>
    /\ record = NoRecord
    /\ user_lookup = EmptyMap
    /\ user_name = ""

scanVars ==
    <<spc, local_parts, net, subnets_to_scan, handles, tasks, permits, biometric_devices,
      panics>>

\* no scan is running
ScanIdle ==
    /\ spc = "idle"
    /\ local_parts = <<0, 0, 0>>
    /\ net = <<>>
    /\ subnets_to_scan = <<>>
    /\ handles = <<>>
    /\ tasks = <<>>
    /\ permits = 0
    /\ biometric_devices = <<>>
    /\ panics = {}

NoTime == [year |-> 0, month |-> 0, day |-> 0, hour |-> 0, minute |-> 0, second |-> 0]

\* no timestamp is being decoded
TimeIdle ==
    /\ tpc = "idle"
    /\ timestamp = <<0, 0>>
    /\ zone = "UTC"
    /\ dt = NoTime

decVars ==
    <<dpc, data_len, total_size, expected_records, record_size, actual_record_size,
      offset, taken, timeVars, nameVars, scanVars>>

\* no blob is being decoded
DecodeIdle ==
    /\ TimeIdle
    /\ NameIdle
    /\ ScanIdle
    /\ dpc = "idle"
    /\ data_len = 0
    /\ total_size = 0
    /\ expected_records = 0
    /\ record_size = 0
    /\ actual_record_size = 0
    /\ offset = 0
    /\ taken = <<>>

codecVars ==
    <<in_command, in_data, packet, top, acc, cksum, cpc, in_password, commkey, decVars>>

CodecIdle ==
    /\ DecodeIdle
    /\ in_command = 0
    /\ in_data = <<>>
    /\ packet = <<>>
    /\ top = <<>>
    /\ acc = 0
    /\ cksum = 0
    /\ cpc = "idle"
    /\ in_password = <<0, 0>>
    /\ commkey = <<>>

\* ------------------------------------------------------------------------
\* The TCP stream from the device (zkteco_client.rs:62, TcpStream)
\* ------------------------------------------------------------------------
\* MAX_CHUNK of read_with_buffer_pyzk (line 337)
MAX_CHUNK == 65472

\* the size of the buffer of send_command_large_recv (line 932)
LARGE_BUF == 1032

\* the upper limit of an announced size (lines 395, 409)
SIZE_LIMIT == 100000000

\* the packet limit of the drain loop (line 360)
DRAIN_LIMIT == 25

\* gotRid when no frame was consumed as the reply of the last command
NoRid == 0 - 1

\* a command code for "no response"
NoCmd == 0 - 1

\* An item of the stream is a frame (an outer header, an inner packet of len
\* bytes: command, session, reply-id and a payload of len - 8 bytes) or raw
\* bytes that are no frame (len of them).  bad: the outer header spells the
\* length but not both magics.  size0 is the u32 at payload[0..4], size1 the
\* u32 at payload[1..5], recs the i32 at payload[32..36].
Frame(cmd, plen, size0, size1, recs) ==
    [raw |-> FALSE, bad |-> FALSE, len |-> 8 + plen, cmd |-> cmd, sid |-> 0, rid |-> 0,
     size0 |-> size0, size1 |-> size1, recs |-> recs, says |-> 8 + plen]

\* the frame f under an outer header whose magics are not the protocol's
WrongMagic(f) == [f EXCEPT !.bad = TRUE]

\* a frame whose inner length is 4: shorter than the 8-byte inner header
ShortFrame ==
    [raw |-> FALSE, bad |-> FALSE, len |-> 4, cmd |-> CMD_ACK_OK, sid |-> 0, rid |-> 0,
     size0 |-> 0, size1 |-> 0, recs |-> 0, says |-> 4]

\* says: the length the u32 at bytes 4..8 of the item spells to a reader that
\* takes its first eight bytes for an outer header
Raw(n) ==
    [raw |-> TRUE, bad |-> FALSE, len |-> n, cmd |-> 0, sid |-> 0, rid |-> 0,
     size0 |-> 0, size1 |-> 0, recs |-> 0, says |-> 0]

\* an outer header that spells a packet of n bytes, of which none arrives:
\* to a reader that returns the error of its read of the packet these are
\* eight bytes that fail it
Truncated(n) == [Raw(8) EXCEPT !.says = n]

NoFrame == Raw(0)

\* the bytes an item occupies on the stream
Bytes(f) == IF f.raw THEN f.len ELSE 8 + f.len

RECURSIVE SumBytes(_)
SumBytes(q) == IF q = <<>> THEN 0 ELSE Bytes(Head(q)) + SumBytes(Tail(q))

\* the stream after n bytes were read from it; what is left of an item read
\* in part is raw bytes
RECURSIVE DropBytes(_, _)
DropBytes(q, n) ==
    IF n = 0 \/ q = <<>> THEN q
    ELSE IF Bytes(Head(q)) <= n THEN DropBytes(Tail(q), n - Bytes(Head(q)))
    ELSE <<Raw(Bytes(Head(q)) - n)>> \o Tail(q)

\* what is left of a frame whose 8-byte outer header alone was read
BodyLeft(q) ==
    IF Head(q).len > 0 THEN <<Raw(Head(q).len)>> \o Tail(q) ELSE Tail(q)

Min(a, b) == IF a < b THEN a ELSE b

\* the session as a handler threads it: the two session fields, whether
\* reply_id was assigned, whether a frame without the magics was parsed,
\* the packets the drain loop has counted (seen, line 363) and the command
\* code of the one it stopped at, the command code of the packet whose size
\* started read_chunks, the size read_prepare_data_stream was called with
\* and whether its loop read a CMD_ACK_OK, and the part of the stream that
\* arrives in time
Ctx(q) ==
    [sid |-> session_id, rid |-> reply_id, touched |-> FALSE, bad |-> FALSE,
     seen |-> 0, stop |-> NoCmd, by |-> NoCmd, announced |-> 0, closed |-> FALSE, rx |-> q]

\* lines 198-201, 235-238, 966-969: session_id when the response's is not
\* zero, reply_id always
Adopt(c, f) ==
    [c EXCEPT !.sid = IF f.sid # 0 THEN f.sid ELSE @, !.rid = f.rid, !.touched = TRUE,
              !.bad = @ \/ f.bad]

\* lines 498, 525, 574, 654, 690, 727: reply_id alone
AdoptRid(c, f) == [c EXCEPT !.rid = f.rid, !.touched = TRUE, !.bad = @ \/ f.bad]

\* a send_command that takes the ids of a response before it looks at its
\* length
recv_reply_early(c) ==
    IF c.rx = <<>> THEN [st |-> "err", f |-> NoFrame, c |-> c]
    ELSE IF Head(c.rx).raw
    THEN [st |-> "err", f |-> NoFrame, c |-> [c EXCEPT !.rx = DropBytes(c.rx, 8)]]
    ELSE IF Head(c.rx).bad
    THEN [st |-> "err", f |-> NoFrame, c |-> [c EXCEPT !.rx = BodyLeft(c.rx)]]
    ELSE IF Head(c.rx).len < 8
    THEN [st |-> "err", f |-> NoFrame,
          c |-> Adopt([c EXCEPT !.rx = Tail(c.rx)], Head(c.rx))]
    ELSE [st |-> "ok", f |-> Head(c.rx),
          c |-> Adopt([c EXCEPT !.rx = Tail(c.rx)], Head(c.rx))]

\* the receive half of send_command (lines 174-207): read_exact of the
\* header, the magic check, read_exact of the packet, the length check
recv_reply(c) ==
    IF c.rx = <<>> THEN [st |-> "err", f |-> NoFrame, c |-> c]
    ELSE IF Head(c.rx).raw
    THEN [st |-> "err", f |-> NoFrame, c |-> [c EXCEPT !.rx = DropBytes(c.rx, 8)]]
    ELSE IF Head(c.rx).bad
    THEN [st |-> "err", f |-> NoFrame, c |-> [c EXCEPT !.rx = BodyLeft(c.rx)]]
    ELSE IF Head(c.rx).len < 8
    THEN [st |-> "err", f |-> NoFrame, c |-> [c EXCEPT !.rx = Tail(c.rx)]]
    ELSE [st |-> "ok", f |-> Head(c.rx),
          c |-> Adopt([c EXCEPT !.rx = Tail(c.rx)], Head(c.rx))]

\* recv_packet (lines 211-242): as recv_reply, but tcp_length < 8 is
\* rejected before the packet is read; "timeout" is the error the drain loop
\* continues on
recv_packet(c) ==
    IF c.rx = <<>> THEN [st |-> "timeout", f |-> NoFrame, c |-> c]
    ELSE IF Head(c.rx).raw
    THEN [st |-> "err", f |-> NoFrame, c |-> [c EXCEPT !.rx = DropBytes(c.rx, 8)]]
    ELSE IF Head(c.rx).bad
    THEN [st |-> "err", f |-> NoFrame, c |-> [c EXCEPT !.rx = BodyLeft(c.rx)]]
    ELSE IF Head(c.rx).len < 8
    THEN [st |-> "err", f |-> NoFrame, c |-> [c EXCEPT !.rx = BodyLeft(c.rx)]]
    ELSE [st |-> "ok", f |-> Head(c.rx),
          c |-> Adopt([c EXCEPT !.rx = Tail(c.rx)], Head(c.rx))]

\* A header read that checks no magic (lines 482-495, 512-522, 558-571,
\* 632-646, 711-724): "none" when nothing arrives, "garbage" when the eight
\* bytes are no outer header (the length they spell is never satisfied: the
\* read of the packet fails and the stream is consumed), else the frame
\* whose header was read, still on the stream, whatever its magics.
peek_header(c) ==
    IF c.rx = <<>> THEN "none"
    ELSE IF Head(c.rx).raw THEN "garbage"
    ELSE "frame"

Consume(c) == [c EXCEPT !.rx = Tail(c.rx)]

ConsumeHeader(c) == [c EXCEPT !.rx = BodyLeft(c.rx)]

Desync(c) == [c EXCEPT !.rx = <<>>]

\* ------------------------------------------------------------------------
\* make_commkey (zkteco_client.rs:245-281)
\* ------------------------------------------------------------------------
\* a ^ b on two bytes
RECURSIVE Xor8(_, _)
Xor8(a, b) ==
    IF a = 0 /\ b = 0 THEN 0
    ELSE ((a + b) % 2) + 2 * Xor8(a \div 2, b \div 2)

\* bit i counted from the top: a key read this way is not reversed
BitOf_msb(key, i) ==
    IF i < 16 THEN (key[1] \div (2 ^ (15 - i))) % 2 ELSE (key[2] \div (2 ^ (31 - i))) % 2

\* bit i of a u32 given as its two 16-bit halves <<hi, lo>>
BitOf(key, i) ==
    IF i < 16 THEN (key[2] \div (2 ^ i)) % 2 ELSE (key[1] \div (2 ^ (i - 16))) % 2

\* lines 249-256: k holds bit i of key at position 31 - i; one 16-bit half
\* of k, its bit positions lo .. lo + 15
RECURSIVE ReversedHalf(_, _, _)
ReversedHalf(key, lo, j) ==
    IF j = 16 THEN 0
    ELSE BitOf(key, 31 - (lo + j)) * (2 ^ j) + ReversedHalf(key, lo, j + 1)

\* lines 245-281; the password is given as <<hi, lo>>, the result is 4 bytes
make_commkey(password, sid) ==
    LET klo  == ReversedHalf(password, 0, 0) + sid
        khi  == (ReversedHalf(password, 16, 0) + klo \div 65536) % 65536
        kb   == LE16(klo % 65536) \o LE16(khi)
        x    == <<Xor8(kb[1], 90), Xor8(kb[2], 75), Xor8(kb[3], 83), Xor8(kb[4], 79)>>
        r    == <<x[3], x[4], x[1], x[2]>>
    IN  <<Xor8(r[1], 50), Xor8(r[2], 50), 50, Xor8(r[4], 50)>>

\* ------------------------------------------------------------------------
\* The handlers' receive paths
\* ------------------------------------------------------------------------
\* what read_with_buffer_pyzk holds as (cmd, data): the command, data.len(),
\* the two size fields, and the frame that follows in data when data starts
\* with the two magics
View(f) ==
    [cmd |-> f.cmd, dlen |-> f.len - 8, size0 |-> f.size0, size1 |-> f.size1,
     magic2 |-> FALSE, second |-> NoFrame]

\* the receive half of send_command_large_recv (lines 932-978): one read()
\* returns the bytes of the first m items that have arrived, at most
\* LARGE_BUF of them; the header is parsed at fixed offsets, and data is all
\* the bytes after the first 16.  With an empty first payload, data starts
\* with the next frame's outer header: its bytes [0..4] are 0x7D825050 and
\* its bytes [1..5] spell a value above SIZE_LIMIT.
large_recv(c, m) ==
    IF c.rx = <<>> THEN [st |-> "err", v |-> View(NoFrame), c |-> c]
    ELSE
      LET f  == Head(c.rx)
          n  == Min(SumBytes(SubSeq(c.rx, 1, m)), LARGE_BUF)
          c1 == [c EXCEPT !.rx = DropBytes(c.rx, n)]
          piggy == m >= 2 /\ ~c.rx[2].raw /\ n >= Bytes(f) + Bytes(c.rx[2])
      IN  IF n < 16 \/ f.raw \/ f.bad THEN [st |-> "err", v |-> View(NoFrame), c |-> c1]
          ELSE [st |-> "ok",
                v  |-> [cmd |-> f.cmd,
                        dlen |-> n - 16,
                        size0 |-> IF f.len >= 12 THEN f.size0
                                  ELSE IF piggy THEN 2105692240 ELSE 0,
                        size1 |-> IF f.len >= 13 THEN f.size1
                                  ELSE IF n - 16 >= 5 THEN SIZE_LIMIT ELSE 0,
                        magic2 |-> f.len = 8 /\ piggy,
                        second |-> IF f.len = 8 /\ piggy THEN c.rx[2] ELSE NoFrame],
                c  |-> Adopt(c1, f)]

\* the drain loop (lines 360-378): a timeout is continued on until the
\* deadline, any other error breaks; kind "data" is the return of line 367
RECURSIVE drain(_, _, _)
drain(c, seen, cur) ==
    IF seen >= DRAIN_LIMIT THEN [kind |-> "break", v |-> cur, c |-> c]
    ELSE
      LET r == recv_packet(c)
          c1 == [r.c EXCEPT !.seen = seen + 1]
          c2 == [c1 EXCEPT !.stop = r.f.cmd]
      IN  IF r.st # "ok" THEN [kind |-> "break", v |-> cur, c |-> r.c]
          ELSE IF r.f.cmd = CMD_DATA THEN [kind |-> "data", v |-> View(r.f), c |-> c2]
          ELSE IF r.f.cmd = CMD_PREPARE_DATA \/ (r.f.cmd = CMD_ACK_OK /\ r.f.len - 8 >= 5)
          THEN [kind |-> "break", v |-> View(r.f), c |-> c2]
          ELSE drain(c1, seen + 1, View(r.f))

\* the loop of read_prepare_data_stream (lines 710-747)
RECURSIVE stream_loop(_, _, _)
stream_loop(c, size, got) ==
    IF got >= size THEN [st |-> "ok", got |-> got, c |-> c]
    ELSE IF peek_header(c) = "none" THEN [st |-> "err", got |-> got, c |-> c]
    ELSE IF peek_header(c) = "garbage" THEN [st |-> "err", got |-> got, c |-> Desync(c)]
    ELSE IF Head(c.rx).len < 8 THEN stream_loop(ConsumeHeader(c), size, got)
    ELSE IF Head(c.rx).cmd = CMD_DATA
    THEN stream_loop(AdoptRid(Consume(c), Head(c.rx)), size, got + (Head(c.rx).len - 8))
    ELSE [st |-> "ok", got |-> got,
          c |-> [AdoptRid(Consume(c), Head(c.rx)) EXCEPT !.closed = Head(c.rx).cmd = CMD_ACK_OK]]

\* lines 382-418 of read_with_buffer_pyzk: what follows the first reply and
\* the drain loop.  "ret" returns Ok with len bytes, "stream" has run the
\* loop of read_prepare_data_stream and is about to send CMD_FREE_DATA,
\* "chunks" enters read_chunks, "free" is line 417.
dispatch(c, v) ==
    IF v.cmd = CMD_PREPARE_DATA
    THEN IF v.dlen >= 4 /\ v.size0 > 0
         THEN LET r == stream_loop([c EXCEPT !.announced = v.size0], v.size0, 0)
              IN  IF r.st = "err" THEN [kind |-> "err", len |-> 0, c |-> r.c]
                  ELSE [kind |-> "stream", len |-> r.got, c |-> r.c]
         ELSE [kind |-> "ret", len |-> 0, c |-> c]
    ELSE IF v.dlen >= 5 /\ v.size1 > 0 /\ v.size1 < SIZE_LIMIT
    THEN [kind |-> "chunks", len |-> v.size1, c |-> [c EXCEPT !.by = v.cmd]]
    ELSE IF /\ v.dlen >= 24
            /\ v.magic2
            /\ v.dlen - 16 >= 5
            /\ v.second.size1 > 0
            /\ v.second.size1 < SIZE_LIMIT
    THEN [kind |-> "chunks", len |-> v.second.size1,
          c |-> [c EXCEPT !.rid = v.second.rid, !.touched = TRUE, !.bad = @ \/ v.second.bad,
                          !.by = v.second.cmd]]
    ELSE [kind |-> "free", len |-> 0, c |-> c]

\* read_with_buffer_pyzk after its command was written (lines 345-418)
buffer_reply(c, m) ==
    LET r == large_recv(c, m)
    IN  IF r.st = "err" THEN [kind |-> "err", len |-> 0, c |-> r.c]
        ELSE IF r.v.cmd = CMD_DATA THEN [kind |-> "ret", len |-> r.v.dlen, c |-> r.c]
        ELSE IF r.v.cmd = CMD_ACK_OK /\ r.v.dlen < 5
        THEN LET d == drain(r.c, 0, r.v)
             IN  IF d.kind = "data" THEN [kind |-> "ret", len |-> d.v.dlen, c |-> d.c]
                 ELSE dispatch(d.c, d.v)
        ELSE dispatch(r.c, r.v)

\* read_simple after its command round-trip succeeded (lines 992-1015)
simple_reply(c, f) ==
    IF f.cmd = CMD_DATA THEN [kind |-> "ret", len |-> f.len - 8, c |-> c]
    ELSE IF f.cmd = CMD_PREPARE_DATA
    THEN IF f.len - 8 >= 4 /\ f.size0 > 0
         THEN LET r == stream_loop([c EXCEPT !.announced = f.size0], f.size0, 0)
              IN  IF r.st = "err" THEN [kind |-> "err", len |-> 0, c |-> r.c]
                  ELSE [kind |-> "stream", len |-> r.got, c |-> r.c]
         ELSE [kind |-> "ret", len |-> 0, c |-> c]
    ELSE IF f.cmd = CMD_ACK_OK /\ f.len - 8 > 0
    THEN [kind |-> "ret", len |-> f.len - 8, c |-> c]
    ELSE [kind |-> "ret", len |-> 0, c |-> c]

\* a read_exact of need bytes straight from the stream (lines 534-540,
\* 603-609)
read_remaining(c, need) ==
    IF SumBytes(c.rx) >= need
    THEN [st |-> "ok", c |-> [c EXCEPT !.rx = DropBytes(c.rx, need)]]
    ELSE [st |-> "err", c |-> Desync(c)]

\* try_read_ack (lines 678-700); inTime: a header arrives within 100 ms.
\* The packet is read into a buffer of tcp_len zeros and the result of that
\* read is dropped (lines 687-688): when the packet does not arrive the
\* buffer still has tcp_len bytes and reply_id is taken from its zeros
\* (lines 689-691).
try_read_ack(c, inTime) ==
    IF ~inTime \/ c.rx = <<>> THEN c
    ELSE IF Head(c.rx).raw
    THEN IF Head(c.rx).says >= 8 /\ Head(c.rx).says <= 64
         THEN [c EXCEPT !.rid = 0, !.touched = TRUE, !.rx = DropBytes(c.rx, 8)]
         ELSE [c EXCEPT !.rx = DropBytes(c.rx, 8)]
    ELSE IF Head(c.rx).len > 0 /\ Head(c.rx).len <= 64
    THEN IF Head(c.rx).len >= 8 THEN AdoptRid(Consume(c), Head(c.rx)) ELSE Consume(c)
    ELSE ConsumeHeader(c)

\* the loop after CMD_PREPARE_DATA as first reply to a chunk request
\* (lines 631-668)
RECURSIVE prepare_loop(_, _, _)
prepare_loop(c, inner_size, got) ==
    IF got >= inner_size THEN [st |-> "ok", got |-> got, c |-> c]
    ELSE IF peek_header(c) = "none" THEN [st |-> "err", got |-> got, c |-> c]
    ELSE IF peek_header(c) = "garbage" THEN [st |-> "err", got |-> got, c |-> Desync(c)]
    ELSE IF Head(c.rx).len < 8 THEN prepare_loop(Consume(c), inner_size, got)
    ELSE IF Head(c.rx).cmd = CMD_DATA
    THEN prepare_loop(AdoptRid(Consume(c), Head(c.rx)), inner_size, got + (Head(c.rx).len - 8))
    ELSE [st |-> "ok", got |-> got, c |-> AdoptRid(Consume(c), Head(c.rx))]

\* the loop after CMD_ACK_OK then CMD_PREPARE_DATA (lines 557-583)
RECURSIVE prepare_loop_after_ack(_, _, _)
prepare_loop_after_ack(c, inner_size, got) ==
    IF got >= inner_size THEN [st |-> "ok", got |-> got, c |-> c]
    ELSE IF peek_header(c) = "none" THEN [st |-> "err", got |-> got, c |-> c]
    ELSE IF peek_header(c) = "garbage" THEN [st |-> "err", got |-> got, c |-> Desync(c)]
    ELSE IF Head(c.rx).len < 8 THEN [st |-> "ok", got |-> got, c |-> ConsumeHeader(c)]
    ELSE IF Head(c.rx).cmd = CMD_DATA /\ Head(c.rx).len > 8
    THEN prepare_loop_after_ack(AdoptRid(Consume(c), Head(c.rx)), inner_size,
                                got + (Head(c.rx).len - 8))
    ELSE [st |-> "ok", got |-> got, c |-> AdoptRid(Consume(c), Head(c.rx))]

\* read_chunk_pyzk after CMD_ACK_OK (lines 507-596); n is the length of the
\* chunk returned
chunk_after_ack(c, size) ==
    IF peek_header(c) = "none" THEN [st |-> "ok", n |-> 0, c |-> c]
    ELSE IF peek_header(c) = "garbage" THEN [st |-> "err", n |-> 0, c |-> Desync(c)]
    ELSE IF Head(c.rx).len < 8 THEN [st |-> "ok", n |-> 0, c |-> ConsumeHeader(c)]
    ELSE
      LET f  == Head(c.rx)
          c1 == AdoptRid(Consume(c), f)
      IN  IF f.cmd = CMD_DATA /\ f.len > 8
          THEN IF f.len - 8 < size
               THEN LET r == read_remaining(c1, size - (f.len - 8))
                    IN  IF r.st = "err" THEN [st |-> "err", n |-> 0, c |-> r.c]
                        ELSE [st |-> "ok", n |-> size, c |-> r.c]
               ELSE [st |-> "ok", n |-> size, c |-> c1]
          ELSE IF f.cmd = CMD_PREPARE_DATA
          THEN LET r == prepare_loop_after_ack(c1, IF f.len >= 12 THEN f.size0 ELSE size, 0)
               IN  IF r.st = "err" THEN [st |-> "err", n |-> 0, c |-> r.c]
                   ELSE [st |-> "ok", n |-> Min(size, r.got), c |-> r.c]
          ELSE [st |-> "ok", n |-> 0, c |-> c1]

\* read_chunk_pyzk after its command was written (lines 482-674)
chunk_reply(c, size, inTime) ==
    IF peek_header(c) = "none" THEN [st |-> "err", n |-> 0, c |-> c]
    ELSE IF peek_header(c) = "garbage" THEN [st |-> "err", n |-> 0, c |-> Desync(c)]
    ELSE IF Head(c.rx).len < 8 THEN [st |-> "err", n |-> 0, c |-> ConsumeHeader(c)]
    ELSE
      LET f  == Head(c.rx)
          c1 == AdoptRid(Consume(c), f)
      IN  IF f.cmd = CMD_ACK_OK THEN chunk_after_ack(c1, size)
          ELSE IF f.cmd = CMD_DATA
          THEN IF f.len - 8 < size
               THEN LET r == read_remaining(c1, size - (f.len - 8))
                    IN  IF r.st = "err" THEN [st |-> "err", n |-> 0, c |-> r.c]
                        ELSE [st |-> "ok", n |-> size, c |-> try_read_ack(r.c, inTime)]
               ELSE [st |-> "ok", n |-> size, c |-> try_read_ack(c1, inTime)]
          ELSE IF f.cmd = CMD_PREPARE_DATA
          THEN IF f.len - 8 < 4 THEN [st |-> "err", n |-> 0, c |-> c1]
               ELSE LET r == prepare_loop(c1, f.size0, 0)
                    IN  IF r.st = "err" THEN [st |-> "err", n |-> 0, c |-> r.c]
                        ELSE [st |-> "ok", n |-> Min(size, r.got), c |-> r.c]
          ELSE [st |-> "err", n |-> 0, c |-> c1]

\* ------------------------------------------------------------------------
\* The device
\* ------------------------------------------------------------------------
\* longest stream of unread items the model keeps
MaxRx == 4

\* most replies of one run in which the device departs from the protocol
MaxFaults == 1

\* lengths and sizes the device draws from: the payload of a blob sent in
\* one frame, an announced size served as one stream or one chunk, the first
\* frame of a stream served in two, and the bytes a fragmented chunk leaves
\* to be read straight from the stream
BlobLen == 44

SmallSize == 100

FirstPart == 60

Fragment == 40

\* the payload of a blob sent in one frame that is longer than the buffer of
\* send_command_large_recv
LongBlob == 2000

\* an announced size above 100 MiB (104857600)
HugeSize == 200000000

\* the session id the device assigns in its reply to CMD_CONNECT
DevSession == 1

AckOk == Frame(CMD_ACK_OK, 0, 0, 0, 0)

AckSized(size) == Frame(CMD_ACK_OK, 5, 0, size, 0)

Prepare(size) == Frame(CMD_PREPARE_DATA, 4, size, 0, 0)

Data(n) == Frame(CMD_DATA, n, 0, 0, 0)

\* the replies of a device that keeps to the protocol.  cmd is the command,
\* len the length a chunk request asks for.  A blob comes in one CMD_DATA
\* frame, or announced by CMD_PREPARE_DATA and closed by CMD_ACK_OK, or is
\* announced in a sized CMD_ACK_OK to be asked for in chunks.
Honest(cmd, len) ==
    IF cmd = CMD_CONNECT
    THEN { <<AckOk>>, <<Frame(CMD_ACK_OK, 2, DevSession, 0, 0)>>,
           <<Frame(CMD_ACK_UNAUTH, 0, 0, 0, 0)>> }
    ELSE IF cmd = CMD_GET_FREE_SIZES
    THEN { <<Frame(CMD_ACK_OK, 80, 0, 0, 0)>>, <<Frame(CMD_ACK_OK, 80, 0, 0, 2)>> }
    ELSE IF cmd = CMD_ATTLOG_RRQ
    THEN { <<AckOk>>, <<Data(BlobLen)>>,
           <<Prepare(SmallSize), Data(SmallSize), AckOk>>,
           <<Prepare(SmallSize), Data(FirstPart), Data(SmallSize - FirstPart), AckOk>> }
    ELSE IF cmd = CMD_DATA_WRRQ
    THEN { <<AckOk>>, <<Data(BlobLen)>>, <<Data(LongBlob)>>,
           <<Prepare(SmallSize), Data(SmallSize), AckOk>>,
           <<AckSized(SmallSize)>>, <<AckSized(MAX_CHUNK)>>,
           <<AckSized(MAX_CHUNK + SmallSize)>> }
    ELSE IF cmd = CMD_DATA_RDY
    THEN { <<Data(len)>>, <<Prepare(len), Data(len), AckOk>> }
    ELSE { <<AckOk>> }

\* the replies in which a device departs from it: nothing, bytes that are
\* no frame, a frame too short for an inner header, a refusal, a frame
\* without the magics, a blob cut short or split, an announced size of none
\* or too many bytes
Faulty(cmd, len) ==
    { <<>>, <<Raw(16)>>, <<ShortFrame>>, <<Frame(CMD_ACK_ERROR, 0, 0, 0, 0)>>,
      <<WrongMagic(AckOk)>> }
    \cup (IF cmd \in {CMD_ATTLOG_RRQ, CMD_DATA_WRRQ}
          THEN { <<Prepare(SmallSize), Data(SmallSize)>>, <<Prepare(SmallSize)>>,
                 <<Frame(CMD_PREPARE_DATA, 0, 0, 0, 0)>>, <<Data(0)>> }
          ELSE {})
    \cup (IF cmd = CMD_ATTLOG_RRQ
          THEN { <<Frame(CMD_ACK_OK, BlobLen, 0, 0, 0)>>,
                 <<Prepare(SmallSize), WrongMagic(Data(SmallSize)), AckOk>>,
                 <<Prepare(HugeSize), Data(SmallSize), AckOk>> }
          ELSE {})
    \cup (IF cmd = CMD_DATA_WRRQ
          THEN { <<AckOk, Data(BlobLen)>>, <<AckOk, AckSized(SmallSize)>>,
                 <<AckOk, Frame(CMD_ACK_ERROR, 5, 0, SmallSize, 0)>>,
                 <<AckSized(0)>>, <<AckSized(SIZE_LIMIT)>>, <<AckSized(HugeSize)>>,
                 <<Prepare(HugeSize), Data(SmallSize), AckOk>>,
                 <<Frame(CMD_ACK_ERROR, 5, 0, SmallSize, 0)>> }
          ELSE {})
    \cup (IF cmd = CMD_DATA_RDY
          THEN { <<Data(len), AckOk>>, <<Data(len - Fragment), Raw(Fragment)>>,
                 <<AckOk, Data(len)>>, <<AckOk, Prepare(len), Data(len)>>,
                 <<Prepare(len), Data(len)>>, <<WrongMagic(Data(len))>>,
                 <<AckOk>>, <<Prepare(len), Data(len - Fragment), AckOk>>,
                 <<Data(len), WrongMagic(AckOk)>>, <<Data(len), Truncated(8)>> }
          ELSE {})

DevReplies(cmd, len) == Honest(cmd, len) \cup Faulty(cmd, len)

\* session ids a device writes into the header of a reply: the session's
\* own, and in a reply of one frame none or another session's
DevSids(script) == IF Len(script) = 1 THEN {0, DevSession, DevSession + 1} ELSE {DevSession}

\* the device echoes the command's reply-id in every frame of its reply
Stamp(script, sid, rid) ==
    [i \in 1..Len(script) |->
        IF script[i].raw THEN script[i] ELSE [script[i] EXCEPT !.sid = sid, !.rid = rid]]

\* how many items of the stream arrive in time for the reads that follow a
\* command, of old items left unread and new the reply: all of them, or the
\* old ones alone
Arrivals(old, new) == {old, old + new}

\* the reply-id of the packet create_header builds in the current state
Outgoing(cmd, payload) == U16At(create_header(cmd, payload), 6)

\* One command written to the device: the device appends one of its replies
\* to the stream, of which the first n items arrive in time for the
\* handler's reads; K continues with the outgoing reply-id, the arrived part
\* and the part that arrives later.  A write_all or flush that fails returns
\* its Err before anything is read: the device replies nothing and the
\* handler is given nothing to read, whatever the stream still holds.
\* faults counts the departures: a reply that is not the protocol's, one
\* that carries another session id than the device's, one that arrives
\* late; a write that fails is one departure.
Exchange(cmd, payload, len, K(_, _, _)) ==
    \E out \in {Outgoing(cmd, payload)}, honest \in {Honest(cmd, len)} :
      \E proto \in DevReplies(cmd, len) :
        \E sid \in DevSids(proto),
           n \in Arrivals(Len(rx), Len(proto)) \cup (IF proto = <<>> THEN {0} ELSE {}) :
          \E cost \in {(IF proto \in honest THEN 0 ELSE 1)
                        + (IF sid = DevSession THEN 0 ELSE 1)
                        + (IF n = Len(rx) + Len(proto) \/ proto = <<>> THEN 0 ELSE 1)} :
            /\ Len(rx) + Len(proto) <= MaxRx
            /\ faults + cost <= MaxFaults
            /\ faults' = faults + cost
            /\ \E q \in {rx \o Stamp(proto, sid, out)} :
                  K(out, Ctx(SubSeq(q, 1, n)), SubSeq(q, n + 1, Len(q)))

\* ------------------------------------------------------------------------
\* connect_and_fetch_attendance (zkteco_client.rs:1248-1288)
\* ------------------------------------------------------------------------
sessVars == <<stage, pc, rx, result, record_count, bulk, hist, faults>>

\* a bulk read under way: the announced size, the bytes asked for and the
\* bytes received so far, the (start, length) of the CMD_DATA_RDY requests
\* written, and whether the loop of read_prepare_data_stream read a
\* CMD_ACK_OK
NoBulk == [size |-> 0, start |-> 0, got |-> 0, reqs |-> <<>>, closed |-> FALSE]

\* what a read_chunks that went through all its requests was called with
\* and asked for
NoChunks == [size |-> 0, reqs |-> <<>>]

\* what the run has done so far: commands written (nSent counts to SentCap), the
\* command and reply-id of the last one, the reply-id of the one before,
\* reply_id and session_id when the last one was built, whether reply_id was assigned
\* between the last two and since the last one, the reply-id of the frame
\* consumed as the last command's reply, whether connect returned Ok,
\* whether CMD_ENABLEDEVICE was written and CMD_EXIT after it, whether a
\* round-trip returned an Err that fetch dropped, whether get_attendance
\* returned Err, what do_handshake saw, and whether a frame without the
\* magics was parsed, and what the last command, a CMD_DATA_WRRQ, made of
\* its first reply, or, a CMD_FREE_DATA of read_chunks, what its read_chunks
\* asked for, and the reads get_attendance has called, each with what it
\* returned: Err, fewer than 4 bytes ("short"), or more ("data"), and the
\* steps of fetch whose commands were written, in the order of the writes,
\* and what the round-trips of disconnect returned, and the transfer of the
\* last bulk read
\* what do_handshake has seen and sent: the command code and the session
\* field of the response to CMD_CONNECT, the CMD_AUTH commands written, the
\* payload and the session_id of the last one, and the command code of the
\* response to it
NoHandshake ==
    [reply |-> NoCmd, sid |-> 0, auths |-> 0, key |-> <<>>, keySid |-> 0, authReply |-> NoCmd]

\* a length for "nothing was returned"
NoLen == 0 - 1

\* what read_with_buffer_pyzk made of its first reply: the command code
\* parsed, the payload length of the frame it came in, the length of data
\* (line 346), the length of the data returned at once (NoLen when the read
\* went on or failed), whether that frame and nothing else was taken from
\* the stream, the packets the drain loop counted and the command code of
\* the one it stopped at, and the command code of the packet whose size
\* started read_chunks
NoFirst ==
    [cmd |-> NoCmd, plen |-> 0, dlen |-> 0, ret |-> NoLen, exact |-> FALSE,
     seen |-> 0, stop |-> NoCmd, by |-> NoCmd]

\* what the two round-trips of disconnect returned: Err, the CMD_ACK_OK
\* response ("ack") or another response ("other")
NoDisconnect == [enable |-> "none", exit |-> "none"]

\* the transfer of the last bulk read: the mode it entered ("stream" for
\* read_prepare_data_stream, "chunks" for read_chunks), whether all the
\* bytes announced had been received when it went on to its CMD_FREE_DATA,
\* whether it wrote CMD_FREE_DATA and what that round-trip returned ("none"
\* when it did not), and how the read returned ("open" while it runs)
NoTransfer == [mode |-> "none", full |-> FALSE, freed |-> FALSE, free |-> "none", ret |-> "open"]

\* what one read_chunk_pyzk was given and returned: the reply-ids of the
\* frames on the stream that were there whole, whether the first of them was
\* a CMD_DATA that held the whole chunk, and the result
NoProbe == [whole |-> {}, data |-> FALSE, st |-> "none"]

WholeRids(q) == {q[i].rid : i \in {j \in 1..Len(q) : ~q[j].raw /\ q[j].len >= 8}}

Probed(q, size, st) ==
    [whole |-> WholeRids(q),
     data  |-> q # <<>> /\ ~Head(q).raw /\ Head(q).cmd = CMD_DATA /\ Head(q).len - 8 >= size,
     st    |-> st]

NoHist ==
    [nSent |-> 0, sentCmd |-> 0, sentRid |-> NoRid, prevRid |-> NoRid, ridAtSend |-> NoRid,
     sidAtSend |-> 0,
     prevTouched |-> FALSE, touched |-> FALSE, gotRid |-> NoRid, connected |-> FALSE,
     sentEnable |-> FALSE, exitAfterEnable |-> FALSE, dropped |-> FALSE, attErr |-> FALSE,
     hs |-> NoHandshake, bad |-> FALSE, first |-> NoFirst, chunks |-> NoChunks,
     att |-> <<>>, order |-> <<>>, disc |-> NoDisconnect, xfer |-> NoTransfer,
     probe |-> NoProbe]

SessionIdle ==
    /\ stage = "idle"
    /\ pc = "cmd"
    /\ rx = <<>>
    /\ result = "none"
    /\ record_count = 0
    /\ bulk = NoBulk
    /\ hist = NoHist
    /\ faults = 0

Init ==
    /\ stage = "tcp"
    /\ pc = "cmd"
    /\ session_id = 0
    /\ reply_id = 0
    /\ rx = <<>>
    /\ result = "none"
    /\ record_count = 0
    /\ bulk = NoBulk
    /\ hist = NoHist
    /\ faults = 0
    /\ CodecIdle

\* the count of commands written stops here
SentCap == 3

\* the step of fetch a command written in the current stage belongs to: the
\* commands of a bulk read are those of get_users or of get_attendance
StepOf(cmd) ==
    IF cmd = CMD_CONNECT THEN "connect"
    ELSE IF cmd = CMD_AUTH THEN "auth"
    ELSE IF cmd = CMD_DISABLEDEVICE THEN "disable"
    ELSE IF cmd = CMD_GET_FREE_SIZES THEN "sizes"
    ELSE IF cmd = CMD_ENABLEDEVICE THEN "enable"
    ELSE IF cmd = CMD_EXIT THEN "exit"
    ELSE IF stage = "users" THEN "users"
    ELSE "attendance"

\* the steps written so far with one more command
Written(steps, cmd) ==
    IF steps # <<>> /\ steps[Len(steps)] = StepOf(cmd) THEN steps
    ELSE Append(steps, StepOf(cmd))

\* hist after a command was written: out its reply-id, got the reply-id of
\* the frame consumed as its reply (NoRid when none was), c the session as
\* the handler leaves it
Sent(cmd, out, got, c) ==
    [hist EXCEPT !.nSent = Min(@ + 1, SentCap),
                 !.sentCmd = cmd,
                 !.prevRid = hist.sentRid,
                 !.sentRid = out,
                 !.ridAtSend = reply_id,
                 !.sidAtSend = session_id,
                 !.prevTouched = hist.touched,
                 !.touched = c.touched,
                 !.bad = @ \/ c.bad,
                 !.first = NoFirst,
                 !.chunks = NoChunks,
                 !.gotRid = got,
                 !.order = Written(@, cmd),
                 !.probe = NoProbe,
                 !.xfer = IF cmd \in {CMD_DATA_WRRQ, CMD_ATTLOG_RRQ} THEN NoTransfer
                          ELSE IF cmd = CMD_FREE_DATA /\ pc # "cmd" THEN [@ EXCEPT !.freed = TRUE]
                          ELSE @,
                 !.sentEnable = @ \/ cmd = CMD_ENABLEDEVICE,
                 !.exitAfterEnable = @ \/ (cmd = CMD_EXIT /\ hist.sentEnable)]

\* get_attendance runs in these stages
AttStages == {"att_simple", "att_fct0", "att_fct1"}

\* hist after a round-trip returned Err in a step whose error fetch logs
\* and drops (lines 1260-1271)
Failed(h) == [h EXCEPT !.dropped = @ \/ stage \in {"disable", "sizes", "users"}]

\* the session fields and the stream after a handler ran
Leave(c, late) ==
    /\ session_id' = c.sid
    /\ reply_id' = c.rid
    /\ rx' = c.rx \o late

\* line 86: reply_id: USHRT_MAX - 1
InitialReplyId == USHRT_MAX - 1

\* ZKClient::connect up to do_handshake (lines 68-87): the TCP connect
\* succeeds and the client is built, or it fails and fetch returns the error
Connect ==
    /\ stage = "tcp"
    /\ \/ /\ stage' = "connect"
          /\ session_id' = 0
          /\ reply_id' = InitialReplyId
          /\ UNCHANGED result
       \/ /\ stage' = "returned"
          /\ result' = "err"
          /\ UNCHANGED <<session_id, reply_id>>
    /\ UNCHANGED <<pc, rx, record_count, bulk, hist, faults, codecVars>>

\* a handshake that takes any response to CMD_AUTH for a success
auth_ok_any(st, cmd) == st = "ok"

\* line 292: the response to CMD_AUTH was read and is CMD_ACK_OK
auth_ok(st, cmd) == st = "ok" /\ cmd = CMD_ACK_OK

\* do_handshake's CMD_CONNECT (lines 285-306); a payload of two bytes or
\* more overwrites session_id
Handshake ==
    /\ stage = "connect"
    /\ Exchange(CMD_CONNECT, <<>>, 0, LAMBDA out, c, late :
          LET r  == recv_reply(c)
              ok == r.st = "ok" /\ r.f.cmd = CMD_ACK_OK
              c1 == IF ok /\ r.f.len - 8 >= 2
                    THEN [r.c EXCEPT !.sid = r.f.size0 % 65536] ELSE r.c
              h  == Sent(CMD_CONNECT, out, IF r.st = "ok" THEN r.f.rid ELSE NoRid, r.c)
          IN  /\ Leave(c1, late)
              /\ stage' = IF ok THEN "disable"
                          ELSE IF r.st = "ok" /\ r.f.cmd = CMD_ACK_UNAUTH THEN "auth"
                          ELSE "returned"
              /\ result' = IF ok \/ (r.st = "ok" /\ r.f.cmd = CMD_ACK_UNAUTH) THEN result ELSE "err"
              /\ hist' = [h EXCEPT !.connected = ok,
                                    !.hs.reply = IF r.st = "ok" THEN r.f.cmd ELSE NoCmd,
                                    !.hs.sid = IF r.st = "ok" THEN r.f.sid ELSE 0])
    /\ UNCHANGED <<pc, record_count, bulk, codecVars>>

\* do_handshake's CMD_AUTH with the commkey of password 0 (lines 289-297)
Authenticate ==
    /\ stage = "auth"
    /\ Exchange(CMD_AUTH, make_commkey(<<0, 0>>, session_id), 0, LAMBDA out, c, late :
          LET r  == recv_reply(c)
              ok == auth_ok(r.st, r.f.cmd)
              h  == Sent(CMD_AUTH, out, IF r.st = "ok" THEN r.f.rid ELSE NoRid, r.c)
          IN  /\ Leave(r.c, late)
              /\ stage' = IF ok THEN "disable" ELSE "returned"
              /\ result' = IF ok THEN result ELSE "err"
              /\ hist' = [h EXCEPT !.connected = ok,
                                    !.hs.auths = @ + 1,
                                    !.hs.key = make_commkey(<<0, 0>>, session_id),
                                    !.hs.keySid = session_id,
                                    !.hs.authReply = IF r.st = "ok" THEN r.f.cmd ELSE NoCmd])
    /\ UNCHANGED <<pc, record_count, bulk, codecVars>>

\* disable_device, its error logged and dropped (lines 1260-1262, 309-312)
DisableDevice ==
    /\ stage = "disable"
    /\ Exchange(CMD_DISABLEDEVICE, <<>>, 0, LAMBDA out, c, late :
          LET r == recv_reply(c)
              h == Sent(CMD_DISABLEDEVICE, out, IF r.st = "ok" THEN r.f.rid ELSE NoRid, r.c)
          IN  /\ Leave(r.c, late)
              /\ hist' = IF r.st = "err" THEN Failed(h) ELSE h)
    /\ stage' = "sizes"
    /\ UNCHANGED <<pc, result, record_count, bulk, codecVars>>

\* read_sizes().unwrap_or((0, 0, 0)) (lines 1265, 314-328)
ReadSizes ==
    /\ stage = "sizes"
    /\ Exchange(CMD_GET_FREE_SIZES, <<>>, 0, LAMBDA out, c, late :
          LET r == recv_reply(c)
              h == Sent(CMD_GET_FREE_SIZES, out, IF r.st = "ok" THEN r.f.rid ELSE NoRid, r.c)
          IN  /\ Leave(r.c, late)
              /\ hist' = IF r.st = "err" THEN Failed(h) ELSE h
              /\ record_count' = IF r.st = "ok" /\ r.f.cmd = CMD_ACK_OK /\ r.f.len - 8 >= 80
                                 THEN r.f.recs ELSE 0)
    /\ stage' = "users"
    /\ UNCHANGED <<pc, result, bulk, codecVars>>

\* the read get_attendance calls in a stage (lines 1023, 1028, 1036)
AttemptOf(s) ==
    IF s = "att_simple" THEN "simple" ELSE IF s = "att_fct0" THEN "fct0" ELSE "fct1"

\* hist when a read is called: get_attendance's are listed
Attempt(h) ==
    IF stage \in AttStages
    THEN [h EXCEPT !.att = Append(@, [kind |-> AttemptOf(stage), out |-> "pending"])]
    ELSE h

\* the reads of get_attendance when the one under way returns
Closed(a, st, len) ==
    IF stage \in AttStages /\ a # <<>>
    THEN [a EXCEPT ![Len(a)].out = IF st = "err" THEN "err"
                                   ELSE IF len < 4 THEN "short" ELSE "data"]
    ELSE a

\* a get_attendance that retries whatever the record count
AfterRead_always(st, len) ==
    IF stage = "users" THEN "att_simple"
    ELSE IF st = "err" THEN "returned"
    ELSE IF len < 4 /\ stage = "att_simple" THEN "att_fct0"
    ELSE IF len < 4 /\ stage = "att_fct0" THEN "att_fct1"
    ELSE "enable"

\* a fetch that does not read the attendance
AfterRead_users_only(st, len) ==
    IF stage = "users" THEN "enable"
    ELSE IF st = "err" THEN "returned"
    ELSE "enable"

\* a fetch that goes on to disconnect after an error of get_attendance
AfterRead_continue(st, len) ==
    IF stage = "users" THEN "att_simple"
    ELSE IF st = "ok" /\ len < 4 /\ record_count > 0 /\ stage = "att_simple" THEN "att_fct0"
    ELSE IF st = "ok" /\ len < 4 /\ record_count > 0 /\ stage = "att_fct0" THEN "att_fct1"
    ELSE "enable"

\* Where a read of get_users or get_attendance leaves the fetch: st "err" or
\* "ok", len the length of the data returned.  get_users' error is dropped
\* (lines 1268-1271); get_attendance's returns from fetch (line 1278); a read
\* of fewer than 4 bytes with records reported tries the next read (lines
\* 1026-1039); the decoding that follows is a function of the blob alone.
AfterRead(st, len) ==
    IF stage = "users" THEN "att_simple"
    ELSE IF st = "err" THEN "returned"
    ELSE IF len < 4 /\ record_count > 0 /\ stage = "att_simple" THEN "att_fct0"
    ELSE IF len < 4 /\ record_count > 0 /\ stage = "att_fct0" THEN "att_fct1"
    ELSE "enable"

\* a read that ends: the next stage, the result of fetch, and the history
Return(st, len, h) ==
    /\ stage' = AfterRead(st, len)
    /\ pc' = "cmd"
    /\ bulk' = NoBulk
    /\ result' = IF AfterRead(st, len) = "returned" THEN "err" ELSE result
    /\ hist' = [h EXCEPT !.attErr = @ \/ (st = "err" /\ stage \in AttStages),
                          !.att = Closed(@, st, len),
                          !.xfer.ret = st]

\* a read that goes on with another command
Continue(next, b, h) ==
    /\ stage' = stage
    /\ pc' = next
    /\ bulk' = b
    /\ result' = result
    /\ hist' = h

\* what a round-trip returned to a caller that looks at no more than this
RoundTrip(r) ==
    IF r.st = "err" THEN "err" ELSE IF r.f.cmd = CMD_ACK_OK THEN "ack" ELSE "other"

\* hist when the first command of a read has entered a mode of transfer:
\* read_prepare_data_stream was called when a size was handed to its loop
Entered(o, h) ==
    IF o.c.announced > 0
    THEN [h EXCEPT !.xfer.mode = "stream",
                   !.xfer.full = o.kind = "stream" /\ o.len >= o.c.announced]
    ELSE IF o.kind = "chunks" THEN [h EXCEPT !.xfer.mode = "chunks"]
    ELSE h

\* what a read does with the outcome of its first command
Proceed(o, h) ==
    IF o.kind = "err" THEN Return("err", 0, Failed(Entered(o, h)))
    ELSE IF o.kind = "ret" THEN Return("ok", o.len, h)
    ELSE IF o.kind = "stream"
    THEN Continue("stream_free",
                  [NoBulk EXCEPT !.got = o.len, !.size = o.c.announced, !.closed = o.c.closed],
                  Entered(o, h))
    ELSE IF o.kind = "chunks"
    THEN Continue("chunk", [NoBulk EXCEPT !.size = o.len], Entered(o, h))
    ELSE Continue("empty_free", NoBulk, h)

\* the control block of CMD_DATA_WRRQ (lines 339-343)
ControlBlock(cmd, fct) == <<1>> \o LE16(cmd) \o LE32(fct) \o LE32(0)

\* the fct of the buffered read of a stage (lines 786, 1028, 1036)
FctOf(s) == IF s = "users" THEN FCT_USER ELSE IF s = "att_fct0" THEN 0 ELSE 1

\* the inner command of the buffered read of a stage
InnerOf(s) == IF s = "users" THEN CMD_USERTEMP_RRQ ELSE CMD_ATTLOG_RRQ

\* the items one read() of send_command_large_recv may return (line 933):
\* the first that arrived, or the first two when a whole frame is followed
\* by more
ReadSpans(q) ==
    IF Len(q) >= 2 /\ ~Head(q).raw /\ Head(q).len >= 8 THEN {1, 2} ELSE {1}

\* read_with_buffer_pyzk from its CMD_DATA_WRRQ to its return or to its next
\* command (lines 336-418, with the loop of read_prepare_data_stream)
BufferedRead ==
    /\ stage \in {"users", "att_fct0", "att_fct1"}
    /\ pc = "cmd"
    /\ Exchange(CMD_DATA_WRRQ, ControlBlock(InnerOf(stage), FctOf(stage)), 0,
          LAMBDA out, c, late :
             \E m \in ReadSpans(c.rx) : \E o \in {buffer_reply(c, m)}, r \in {large_recv(c, m)} :
                LET got == IF r.st = "ok" THEN Head(c.rx).rid ELSE NoRid
                    fst == IF r.st = "ok"
                           THEN [cmd |-> r.v.cmd, plen |-> Head(c.rx).len - 8,
                                 dlen |-> r.v.dlen,
                                 ret |-> IF o.kind = "ret" THEN o.len ELSE NoLen,
                                 exact |-> o.c.rx = Tail(c.rx),
                                 seen |-> o.c.seen, stop |-> o.c.stop, by |-> o.c.by]
                           ELSE NoFirst
                IN  /\ Leave(o.c, late)
                    /\ Proceed(o, Attempt([Sent(CMD_DATA_WRRQ, out, got, o.c)
                                               EXCEPT !.first = fst])))
    /\ UNCHANGED <<record_count, codecVars>>

\* read_simple(CMD_ATTLOG_RRQ) from its command to its return or to the
\* CMD_FREE_DATA of read_prepare_data_stream (lines 983-1016)
ReadSimple ==
    /\ stage = "att_simple"
    /\ pc = "cmd"
    /\ Exchange(CMD_ATTLOG_RRQ, <<>>, 0, LAMBDA out, c, late :
          \E r \in {recv_reply(c)} :
          \E o \in {IF r.st = "err" THEN [kind |-> "err", len |-> 0, c |-> r.c]
                     ELSE simple_reply(r.c, r.f)} :
              /\ Leave(o.c, late)
              /\ Proceed(o, Attempt(Sent(CMD_ATTLOG_RRQ, out,
                                         IF r.st = "ok" THEN r.f.rid ELSE NoRid, o.c))))
    /\ UNCHANGED <<record_count, codecVars>>

\* the CMD_FREE_DATA of read_prepare_data_stream, its error returned
\* (lines 750-760)
StreamFree ==
    /\ pc = "stream_free"
    /\ Exchange(CMD_FREE_DATA, <<>>, 0, LAMBDA out, c, late :
          LET r == recv_reply(c)
              h == Sent(CMD_FREE_DATA, out, IF r.st = "ok" THEN r.f.rid ELSE NoRid, r.c)
          IN  /\ Leave(r.c, late)
              /\ \E x \in {[h EXCEPT !.xfer.free = RoundTrip(r)]} :
                    IF r.st = "err" THEN Return("err", 0, Failed(x))
                    ELSE Return("ok", bulk.got, x))
    /\ UNCHANGED <<record_count, codecVars>>

\* a read_chunks that asks for max_chunk bytes until size is covered
ChunkLen_full(b) == IF b.start < b.size THEN MAX_CHUNK ELSE 0

\* the length of the next chunk of read_chunks (lines 422-445): max_chunk
\* while full chunks remain, then the remainder once, then none; b.start
\* counts the bytes asked for so far
ChunkLen(b) ==
    IF b.start < (b.size \div MAX_CHUNK) * MAX_CHUNK THEN MAX_CHUNK
    ELSE IF b.start < b.size THEN b.size % MAX_CHUNK
    ELSE 0

\* one read_chunk_pyzk of read_chunks (lines 430-445, 457-675); its error
\* returns from read_chunks
ReadChunk ==
    /\ pc = "chunk"
    /\ ChunkLen(bulk) > 0
    /\ Exchange(CMD_DATA_RDY, LE32(bulk.start) \o LE32(ChunkLen(bulk)), ChunkLen(bulk),
          LAMBDA out, c, late :
             \E inTime \in BOOLEAN : \E o \in {chunk_reply(c, ChunkLen(bulk), inTime)} :
                LET got == IF c.rx # <<>> /\ ~Head(c.rx).raw /\ Head(c.rx).len >= 8
                           THEN Head(c.rx).rid ELSE NoRid
                    h == [Sent(CMD_DATA_RDY, out, got, o.c)
                             EXCEPT !.probe = Probed(c.rx, ChunkLen(bulk), o.st)]
                IN  /\ Leave(o.c, late)
                    /\ IF o.st = "err" THEN Return("err", 0, Failed(h))
                       ELSE Continue("chunk",
                                     [bulk EXCEPT !.start = @ + ChunkLen(bulk), !.got = @ + o.n,
                                                  !.reqs = Append(@, <<bulk.start, ChunkLen(bulk)>>)],
                                     h))
    /\ UNCHANGED <<record_count, codecVars>>

\* the CMD_FREE_DATA of read_chunks, its result dropped (lines 447-453)
ChunksFree ==
    /\ pc = "chunk"
    /\ ChunkLen(bulk) = 0
    /\ Exchange(CMD_FREE_DATA, <<>>, 0, LAMBDA out, c, late :
          LET r == recv_reply(c)
              h == Sent(CMD_FREE_DATA, out, IF r.st = "ok" THEN r.f.rid ELSE NoRid, r.c)
          IN  /\ Leave(r.c, late)
              /\ Return("ok", bulk.got,
                        [h EXCEPT !.chunks = [size |-> bulk.size, reqs |-> bulk.reqs],
                                  !.xfer.full = bulk.got >= bulk.size,
                                  !.xfer.free = RoundTrip(r)]))
    /\ UNCHANGED <<record_count, codecVars>>

\* the CMD_FREE_DATA of read_with_buffer_pyzk when no size was found, its
\* result dropped (lines 417-418)
EmptyFree ==
    /\ pc = "empty_free"
    /\ Exchange(CMD_FREE_DATA, <<>>, 0, LAMBDA out, c, late :
          LET r == recv_reply(c)
              h == Sent(CMD_FREE_DATA, out, IF r.st = "ok" THEN r.f.rid ELSE NoRid, r.c)
          IN  /\ Leave(r.c, late)
              /\ Return("ok", 0, h))
    /\ UNCHANGED <<record_count, codecVars>>

\* a disconnect that returns the error of its round-trips
disconnect_strict(enabled, exited) ==
    IF enabled = "ack" /\ exited # "err" THEN "ok" ELSE "err"

\* disconnect drops both results and returns Ok(()) (lines 1241-1244)
disconnect(enabled, exited) == "ok"

\* disconnect's enable_device, its result dropped (lines 1241, 330-333)
EnableDevice ==
    /\ stage = "enable"
    /\ Exchange(CMD_ENABLEDEVICE, <<>>, 0, LAMBDA out, c, late :
          LET r == recv_reply(c)
          IN  /\ Leave(r.c, late)
              /\ hist' = [Sent(CMD_ENABLEDEVICE, out,
                               IF r.st = "ok" THEN r.f.rid ELSE NoRid, r.c)
                             EXCEPT !.disc.enable = RoundTrip(r)])
    /\ stage' = "exit"
    /\ UNCHANGED <<pc, result, record_count, bulk, codecVars>>

\* disconnect's CMD_EXIT, its result dropped; disconnect returns Ok and
\* fetch returns the records (lines 1242-1244, 1282-1284)
Exit ==
    /\ stage = "exit"
    /\ Exchange(CMD_EXIT, <<>>, 0, LAMBDA out, c, late :
          LET r == recv_reply(c)
          IN  /\ Leave(r.c, late)
              /\ hist' = [Sent(CMD_EXIT, out,
                               IF r.st = "ok" THEN r.f.rid ELSE NoRid, r.c)
                             EXCEPT !.disc.exit = RoundTrip(r)]
              /\ result' = disconnect(hist.disc.enable, RoundTrip(r)))
    /\ stage' = "returned"
    /\ UNCHANGED <<pc, record_count, bulk, codecVars>>

\* ------------------------------------------------------------------------
\* The codec applied to drawn inputs
\* ------------------------------------------------------------------------
InitCodec ==
    /\ session_id \in CodecSessionIds
    /\ reply_id \in CodecReplyIds
    /\ in_command \in CodecCommands
    /\ in_data \in CodecData
    /\ packet = <<>>
    /\ top = <<>>
    /\ acc = 0
    /\ cksum = 0
    /\ cpc = "ready"
    /\ in_password = <<0, 0>>
    /\ commkey = <<>>
    /\ DecodeIdle
    /\ SessionIdle

\* create_header(command, command_string) followed by create_tcp_top, as in
\* send_command lines 166-167
ApplyCreateHeader ==
    /\ cpc = "ready"
    /\ packet' = create_header(in_command, in_data)
    /\ top' = create_tcp_top(create_header(in_command, in_data))
    /\ cpc' = "built"
    /\ UNCHANGED <<session_id, reply_id, in_command, in_data, acc, cksum, in_password, commkey,
                   decVars, sessVars>>

\* calc_checksum(data)
ApplyCalcChecksum ==
    /\ cpc = "ready"
    /\ acc' = calc_sum(in_data)
    /\ cksum' = calc_checksum(in_data)
    /\ cpc' = "summed"
    /\ UNCHANGED <<session_id, reply_id, in_command, in_data, packet, top, in_password, commkey,
                   decVars, sessVars>>

NextCodec == ApplyCreateHeader \/ ApplyCalcChecksum

\* ------------------------------------------------------------------------
\* SpecKey: make_commkey applied to drawn inputs
\* ------------------------------------------------------------------------
\* 16-bit halves whose bits sit at both ends and in the middle, and whose
\* reversal plus a session id carries into the upper half
KeyHalves == {0, 1, 2, 255, 256, 4660, 32768, 65535}

KeyPasswords == {<<hi, lo>> : hi \in KeyHalves, lo \in KeyHalves}

KeySessionIds == {0, 1, 4660, 65535}

InitKey ==
    /\ session_id \in KeySessionIds
    /\ reply_id = 0
    /\ in_password \in KeyPasswords
    /\ commkey = <<>>
    /\ in_command = 0
    /\ in_data = <<>>
    /\ packet = <<>>
    /\ top = <<>>
    /\ acc = 0
    /\ cksum = 0
    /\ cpc = "key"
    /\ DecodeIdle
    /\ SessionIdle

\* make_commkey(password, session_id)
ApplyMakeCommkey ==
    /\ cpc = "key"
    /\ commkey' = make_commkey(in_password, session_id)
    /\ cpc' = "keyed"
    /\ UNCHANGED <<session_id, reply_id, in_command, in_data, packet, top, acc, cksum,
                   in_password, decVars, sessVars>>

NextKey == ApplyMakeCommkey

\* ------------------------------------------------------------------------
\* The record decoders of get_attendance (zkteco_client.rs:1053-1224) and
\* get_users (800-913), applied to drawn blobs
\* ------------------------------------------------------------------------
\* longest blob drawn
MaxBlob == 80

\* values drawn for the u32 at the head of the blob
DecTotals == {0, 8, 16, 40, 48, 80, 96}

\* record counts drawn, as the i32 of read_sizes line 320
DecCounts == {0 - 1, 0, 1, 2, 3}

\* expected_records > 0 on the u32 that `as u32` makes of the i32 (lines
\* 320, 1026, 1063): every value but 0
counted(n) == n # 0

\* total_size / expected_records as usize (line 1064) for total_size below
\* 2^31: a negative count is a u32 of 2^31 or more, above total_size
quotient(total, n) == IF n < 0 THEN 0 ELSE total \div n

\* a fallback that tries the small sizes first
fallback_size_small(body) ==
    IF body % 8 = 0 THEN 8 ELSE IF body % 16 = 0 THEN 16 ELSE IF body % 40 = 0 THEN 40 ELSE 16

\* lines 1067-1075
fallback_size(body) ==
    IF body % 40 = 0 THEN 40 ELSE IF body % 16 = 0 THEN 16 ELSE IF body % 8 = 0 THEN 8 ELSE 16

\* lines 1063-1076
attendance_record_size(len, total, n) ==
    IF counted(n) /\ total > 0 THEN quotient(total, n) ELSE fallback_size(len - 4)

\* the stride of the loop the match of line 1092 selects (1096, 1131, 1167)
attendance_stride(size) ==
    IF size = 8 \/ size = 16 THEN size ELSE IF size >= 40 THEN 40 ELSE size

\* whether an iteration of that loop pushes a record (1113, 1150, 1173)
attendance_pushes(size) == size = 8 \/ size = 16 \/ attendance_stride(size) >= 40

\* lines 813-827
user_record_size(len, total) ==
    IF len - 4 > 0 /\ total > 0
    THEN IF len - 4 >= 72 /\ (len - 4) % 72 = 0 THEN 72
         ELSE IF len - 4 >= 28 /\ (len - 4) % 28 = 0 THEN 28
         ELSE 28
    ELSE 28

InitDecode ==
    /\ dpc \in {"attendance", "users"}
    /\ data_len \in 0..MaxBlob
    /\ total_size \in DecTotals
    /\ expected_records \in IF dpc = "attendance" THEN DecCounts ELSE {0}
    /\ record_size = 0
    /\ actual_record_size = 0
    /\ offset = 0
    /\ taken = <<>>
    /\ session_id = 0
    /\ reply_id = 0
    /\ in_command = 0
    /\ in_data = <<>>
    /\ packet = <<>>
    /\ top = <<>>
    /\ acc = 0
    /\ cksum = 0
    /\ cpc = "idle"
    /\ in_password = <<0, 0>>
    /\ commkey = <<>>
    /\ SessionIdle
    /\ TimeIdle
    /\ NameIdle
    /\ ScanIdle

otherVars ==
    <<session_id, reply_id, in_command, in_data, packet, top, acc, cksum, cpc, in_password,
      commkey, sessVars, timeVars, nameVars, scanVars>>

\* get_attendance from the blob to its loop (lines 1053-1095): fewer than 4
\* bytes return the empty list
StartAttendance ==
    /\ dpc = "attendance"
    /\ IF data_len < 4
       THEN /\ dpc' = "att_done"
            /\ UNCHANGED <<record_size, actual_record_size>>
       ELSE /\ dpc' = "att_loop"
            /\ record_size' = attendance_record_size(data_len, total_size, expected_records)
            /\ actual_record_size' =
                  attendance_stride(attendance_record_size(data_len, total_size, expected_records))
    /\ UNCHANGED <<data_len, total_size, expected_records, offset, taken, otherVars>>

\* one iteration of the loop of the arm taken (lines 1096-1125, 1131-1162,
\* 1170-1213)
StepAttendance ==
    /\ dpc = "att_loop"
    /\ offset + actual_record_size <= data_len - 4
    /\ taken' = IF attendance_pushes(record_size) THEN Append(taken, offset) ELSE taken
    /\ offset' = offset + actual_record_size
    /\ UNCHANGED <<dpc, data_len, total_size, expected_records, record_size,
                   actual_record_size, otherVars>>

\* the loop ends and get_attendance returns the records (line 1224)
EndAttendance ==
    /\ dpc = "att_loop"
    /\ ~(offset + actual_record_size <= data_len - 4)
    /\ dpc' = "att_done"
    /\ UNCHANGED <<data_len, total_size, expected_records, record_size, actual_record_size,
                   offset, taken, otherVars>>

\* get_users from the blob to its loop (lines 800-832): 4 bytes or fewer
\* return the empty list
StartUsers ==
    /\ dpc = "users"
    /\ IF data_len <= 4
       THEN /\ dpc' = "users_done"
            /\ UNCHANGED <<record_size, actual_record_size>>
       ELSE /\ dpc' = "user_loop"
            /\ record_size' = user_record_size(data_len, total_size)
            /\ actual_record_size' = user_record_size(data_len, total_size)
    /\ UNCHANGED <<data_len, total_size, expected_records, offset, taken, otherVars>>

\* one iteration of the loop of lines 837-868 or 874-912
StepUsers ==
    /\ dpc = "user_loop"
    /\ offset + actual_record_size <= data_len - 4
    /\ taken' = Append(taken, offset)
    /\ offset' = offset + actual_record_size
    /\ UNCHANGED <<dpc, data_len, total_size, expected_records, record_size,
                   actual_record_size, otherVars>>

\* the loop ends and get_users returns the users
EndUsers ==
    /\ dpc = "user_loop"
    /\ ~(offset + actual_record_size <= data_len - 4)
    /\ dpc' = "users_done"
    /\ UNCHANGED <<data_len, total_size, expected_records, record_size, actual_record_size,
                   offset, taken, otherVars>>

NextDecode ==
    \/ StartAttendance
    \/ StepAttendance
    \/ EndAttendance
    \/ StartUsers
    \/ StepUsers
    \/ EndUsers

\* ------------------------------------------------------------------------
\* decode_time (zkteco_client.rs:764-780)
\* ------------------------------------------------------------------------
\* t / 60 and t % 60 of a u32 held as <<high, low>> (lines 765-766)
div60(p) == (p[1] \div 60) * 65536 + ((p[1] % 60) * 65536 + p[2]) \div 60

mod60(p) == ((p[1] % 60) * 65536 + p[2]) % 60

\* the fields decode_time computes from t (lines 765-775)
time_fields(p) ==
    LET second == mod60(p)
        t1     == div60(p)
        minute == t1 % 60
        t2     == t1 \div 60
        hour   == t2 % 24
        t3     == t2 \div 24
        day    == (t3 % 31) + 1
        t4     == t3 \div 31
        month  == (t4 % 12) + 1
        t5     == t4 \div 12
        year   == t5 + 2000
    IN  [year |-> year, month |-> month, day |-> day,
         hour |-> hour, minute |-> minute, second |-> second]

\* the proleptic Gregorian calendar of chrono's NaiveDate
IsLeap(y) == (y % 4 = 0 /\ y % 100 # 0) \/ y % 400 = 0

DaysIn(y, mo) ==
    IF mo = 2 THEN (IF IsLeap(y) THEN 29 ELSE 28)
    ELSE IF mo \in {4, 6, 9, 11} THEN 30
    ELSE 31

ValidDate(y, mo, d) == mo \in 1..12 /\ d \in 1..DaysIn(y, mo)

\* leap days of the years 2000 .. y - 1
LeapDaysBefore(y) ==
    IF y <= 2000 THEN 0
    ELSE ((y - 1) \div 4 - (y - 1) \div 100 + (y - 1) \div 400) - (499 - 19 + 4)

RECURSIVE DaysBeforeMonth(_, _)
DaysBeforeMonth(y, mo) ==
    IF mo <= 1 THEN 0 ELSE DaysBeforeMonth(y, mo - 1) + DaysIn(y, mo - 1)

\* the day of the week, 0 for Sunday; 2000-01-01 was a Saturday
Weekday(y, mo, d) ==
    (6 + 365 * (y - 2000) + LeapDaysBefore(y) + DaysBeforeMonth(y, mo) + d - 1) % 7

\* the last Sunday of a month of 31 days
LastSunday(y, mo) == CHOOSE d \in 25..31 : Weekday(y, mo, d) = 0

\* the time zones of the host that are modelled: one without daylight saving
\* time and one with the rule of the European Union, where the local times
\* of 02:00:00 - 02:59:59 do not exist on the last Sunday of March and occur
\* twice on the last Sunday of October
Zones == {"UTC", "Europe/Berlin"}

\* Local.with_ymd_and_hms (line 777): which LocalResult the host's zone
\* gives for the fields
with_ymd_and_hms(z, f) ==
    IF ~ValidDate(f.year, f.month, f.day) THEN "None"
    ELSE IF z = "Europe/Berlin" /\ f.hour = 2 /\ f.month = 3
            /\ f.day = LastSunday(f.year, 3) THEN "None"
    ELSE IF z = "Europe/Berlin" /\ f.hour = 2 /\ f.month = 10
            /\ f.day = LastSunday(f.year, 10) THEN "Ambiguous"
    ELSE "Single"

\* decode_time (lines 764-780): .single() keeps a Single result only, and
\* unwrap_or_else puts the current time in the place of every other one
decode_time(z, p, now) ==
    IF with_ymd_and_hms(z, time_fields(p)) = "Single" THEN time_fields(p) ELSE now

\* the packed value of the device as <<high, low>>:
\* ((((y-2000)*12 + (mo-1))*31 + (d-1))*24 + h)*3600 + m*60 + s
encode_time(y, mo, d, h, mi, s) ==
    LET minutes == (((((y - 2000) * 12 + (mo - 1)) * 31 + (d - 1)) * 24 + h) * 60) + mi
        low     == (minutes % 65536) * 60 + s
    IN  <<(minutes \div 65536) * 60 + low \div 65536, low % 65536>>

\* the timestamps decoded: the dates of some years, with the first and last
\* days of a month and the days around the changes of the clock
TimeYears == {2000, 2001, 2068, 2099}
TimeMonths == {1, 2, 3, 10, 12}
TimeDays == {1, 25, 26, 28, 29, 30, 31}
TimeHours == {0, 2, 23}
TimeMinutes == {0, 30, 59}
TimeSeconds == {0, 59}

Timestamps ==
    {encode_time(y, mo, d, h, mi, s) :
        y \in TimeYears, mo \in TimeMonths, d \in TimeDays,
        h \in TimeHours, mi \in TimeMinutes, s \in TimeSeconds}
    \cup {<<65535, 65535>>}

\* what the clock of the host may show when decode_time runs
Clocks ==
    {[year |-> 2024, month |-> 6, day |-> 1, hour |-> 12, minute |-> 0, second |-> 0],
     [year |-> 2025, month |-> 1, day |-> 15, hour |-> 8, minute |-> 30, second |-> 1]}

InitTime ==
    /\ tpc = "time"
    /\ timestamp \in Timestamps
    /\ zone \in Zones
    /\ dt = NoTime
    /\ dpc = "idle"
    /\ data_len = 0
    /\ total_size = 0
    /\ expected_records = 0
    /\ record_size = 0
    /\ actual_record_size = 0
    /\ offset = 0
    /\ taken = <<>>
    /\ session_id = 0
    /\ reply_id = 0
    /\ in_command = 0
    /\ in_data = <<>>
    /\ packet = <<>>
    /\ top = <<>>
    /\ acc = 0
    /\ cksum = 0
    /\ cpc = "idle"
    /\ in_password = <<0, 0>>
    /\ commkey = <<>>
    /\ SessionIdle
    /\ ScanIdle
    /\ NameIdle

\* one call of decode_time
DecodeTime ==
    /\ tpc = "time"
    /\ \E now \in Clocks : dt' = decode_time(zone, timestamp, now)
    /\ tpc' = "time_done"
    /\ UNCHANGED <<timestamp, zone, dpc, data_len, total_size, expected_records, record_size,
                   actual_record_size, offset, taken, session_id, reply_id, in_command,
                   in_data, packet, top, acc, cksum, cpc, in_password, commkey, sessVars,
                   scanVars, nameVars>>

NextTime == DecodeTime

\* ------------------------------------------------------------------------
\* The name of an attendance record (zkteco_client.rs:1083-1197)
\* ------------------------------------------------------------------------
Digits == <<"0", "1", "2", "3", "4", "5", "6", "7", "8", "9">>

\* to_string of an unsigned integer: its decimal text
RECURSIVE to_string(_)
to_string(n) ==
    IF n < 10 THEN Digits[n + 1] ELSE to_string(n \div 10) \o Digits[(n % 10) + 1]

\* HashMap::insert: the value of a key that is there already is replaced
insert(map, key, value) ==
    [x \in DOMAIN map \cup {key} |-> IF x = key THEN value ELSE map[x]]

\* HashMap::get as an Option: <<v>> is Some(v), <<>> is None
get(map, key) == IF key \in DOMAIN map THEN <<map[key]>> ELSE <<>>

or_else(opt, other) == IF opt # <<>> THEN opt ELSE other

unwrap_or_else(opt, default) == IF opt # <<>> THEN opt[1] ELSE default

\* lines 1084-1088: for each user in order, the uid's text and then the
\* user_id are inserted with the user's name
RECURSIVE build_lookup(_, _, _)
build_lookup(map, us, k) ==
    IF k > Len(us) THEN map
    ELSE build_lookup(insert(insert(map, to_string(us[k].uid), us[k].name),
                             us[k].user_id, us[k].name),
                      us, k + 1)

\* the user_name of a record: of 8 bytes by its uid (lines 1104-1108), of 16
\* bytes by its user_id (1138-1142), of 40 bytes by its user_id text and then
\* by its uid, or by the uid alone when the text is empty (1183-1192)
name_of(map, r) ==
    IF r.fmt = 8
    THEN unwrap_or_else(get(map, to_string(r.uid)),
                        "Unknown (ID: " \o to_string(r.uid) \o ")")
    ELSE IF r.fmt = 16
    THEN unwrap_or_else(get(map, to_string(r.id)),
                        "Unknown (ID: " \o to_string(r.id) \o ")")
    ELSE IF r.text # ""
    THEN unwrap_or_else(or_else(get(map, r.text), get(map, to_string(r.uid))),
                        "Unknown (ID: " \o r.text \o ")")
    ELSE unwrap_or_else(get(map, to_string(r.uid)),
                        "Unknown (UID: " \o to_string(r.uid) \o ")")

\* most users of a list
MaxUsers == 2

\* the uids and user_ids of the users and the names, one per place in the list
NameUids == {1, 2, 12}
NameIds == {"1", "2", "12"}
Names == <<"Ann", "Bob", "Cy", "Dee">>

\* the lists of users get_users can return from a device that gives every
\* user a uid and a user_id of their own
UserLists ==
    UNION {
      { [k \in 1..n |-> [uid |-> u[k], user_id |-> i[k], name |-> Names[k]]] :
          u \in {f \in [1..n -> NameUids] : \A a, b \in 1..n : a # b => f[a] # f[b]},
          i \in {g \in [1..n -> NameIds] : \A a, b \in 1..n : a # b => g[a] # g[b]} } :
      n \in 0..MaxUsers }

NameRecords ==
    {[fmt |-> 8, uid |-> u, id |-> 0, text |-> ""] : u \in NameUids \cup {0}}
    \cup {[fmt |-> 16, uid |-> 0, id |-> i, text |-> ""] : i \in NameUids \cup {0}}
    \cup {[fmt |-> 40, uid |-> u, id |-> 0, text |-> t] :
             u \in NameUids \cup {0}, t \in NameIds \cup {"", "9"}}

InitName ==
    /\ npc = "build"
    /\ users \in UserLists
    /\ record \in NameRecords
    /\ user_lookup = EmptyMap
    /\ user_name = ""
    /\ TimeIdle
    /\ ScanIdle
    /\ dpc = "idle"
    /\ data_len = 0
    /\ total_size = 0
    /\ expected_records = 0
    /\ record_size = 0
    /\ actual_record_size = 0
    /\ offset = 0
    /\ taken = <<>>
    /\ session_id = 0
    /\ reply_id = 0
    /\ in_command = 0
    /\ in_data = <<>>
    /\ packet = <<>>
    /\ top = <<>>
    /\ acc = 0
    /\ cksum = 0
    /\ cpc = "idle"
    /\ in_password = <<0, 0>>
    /\ commkey = <<>>
    /\ SessionIdle

nonNameVars ==
    <<session_id, reply_id, in_command, in_data, packet, top, acc, cksum, cpc, in_password,
      commkey, sessVars, dpc, data_len, total_size, expected_records, record_size,
      actual_record_size, offset, taken, timeVars, scanVars>>

\* the lookup table is built from the users (lines 1084-1088)
BuildLookup ==
    /\ npc = "build"
    /\ user_lookup' = build_lookup(EmptyMap, users, 1)
    /\ npc' = "lookup"
    /\ UNCHANGED <<users, record, user_name, nonNameVars>>

\* the record is given its name
NameRecord ==
    /\ npc = "lookup"
    /\ user_name' = name_of(user_lookup, record)
    /\ npc' = "named"
    /\ UNCHANGED <<users, record, user_lookup, nonNameVars>>

NextName ==
    \/ BuildLookup
    \/ NameRecord

\* ------------------------------------------------------------------------
\* The network scan (device_scanner.rs)
\* ------------------------------------------------------------------------
ZKTECO_PORTS == <<4370, 4360, 5005, 5010, 89>>
OTHER_PORTS == <<80, 8080, 443, 8443>>
COMMON_SUBNETS ==
    << <<192, 168, 1>>, <<192, 168, 0>>, <<192, 168, 2>>,
       <<10, 0, 0>>, <<10, 0, 1>>, <<172, 16, 0>> >>

\* the permits of the semaphore (100 in line 27) and the last host number of
\* a subnet (254 in line 144), scaled down together
MAX_CONCURRENT == 1
LastHost == 1

Range(s) == {s[k] : k \in 1..Len(s)}

AllPorts == Range(ZKTECO_PORTS) \cup Range(OTHER_PORTS)

\* the first port of a list that accepts a connection, 0 when none does, and
\* the ports probed until then (lines 65-71: the loop breaks at the first)
RECURSIVE first_open(_, _, _)
first_open(ports, open, k) ==
    IF k > Len(ports) THEN [port |-> 0, probed |-> ports]
    ELSE IF ports[k] \in open THEN [port |-> ports[k], probed |-> SubSeq(ports, 1, k)]
    ELSE first_open(ports, open, k + 1)

\* open_ports.sort() (line 91)
sort_unsorted(s) == s

sort(s) == SortSeq(s, LAMBDA a, b : a < b)

NoDevice == [found |-> FALSE, main_port |-> 0, open_ports |-> <<>>, info_port |-> 0]

\* check_biometric_ip after its permit was acquired (lines 65-106) at an
\* address where the ports of the set open accept a connection: the device
\* reported, if any, and the ports probed, in order
check_biometric_ip(open) ==
    LET first  == first_open(ZKTECO_PORTS, open, 1)
        port   == first.port
        others == SelectSeq(ZKTECO_PORTS, LAMBDA p : p # port)
        isOpen(p) == p \in open
    IN  IF port = 0
        THEN [device |-> NoDevice, probed |-> first.probed]
        ELSE [device |-> [found |-> TRUE,
                          main_port |-> port,
                          open_ports |-> sort(<<port>> \o SelectSeq(others, isOpen)
                                                       \o SelectSeq(OTHER_PORTS, isOpen)),
                          info_port |-> port],
              probed |-> first.probed \o others \o OTHER_PORTS]

\* a list that takes every common subnet
contains_never(list, s) == FALSE

\* subnets_to_scan.contains(subnet) (line 130)
contains(list, s) == s \in Range(list)

\* lines 124-133: the local subnet, then each common subnet not yet listed
RECURSIVE add_common(_, _)
add_common(list, k) ==
    IF k > Len(COMMON_SUBNETS) THEN list
    ELSE add_common(IF contains(list, COMMON_SUBNETS[k]) THEN list
                    ELSE Append(list, COMMON_SUBNETS[k]), k + 1)

\* lines 143-153: one task per host number 1 .. LastHost of each subnet listed
RECURSIVE spawn_all(_, _, _)
spawn_all(subnets, k, i) ==
    IF k > Len(subnets) THEN <<>>
    ELSE IF i > LastHost THEN spawn_all(subnets, k + 1, 1)
    ELSE <<Append(subnets[k], i)>> \o spawn_all(subnets, k, i + 1)

\* the local subnets of the hosts modelled: one of the common ones and another
LocalSubnets == {<<192, 168, 0>>, <<10, 1, 1>>}

\* the addresses a scan can reach
ScanIps ==
    {Append(s, i) : s \in Range(COMMON_SUBNETS) \cup LocalSubnets, i \in 1..LastHost}

\* the network of the scan: a device with three ZKTeco ports and a web port
\* in 192.168.1.x, one with the last ZKTeco port in 10.0.0.x, web servers in
\* 172.16.0.x, nothing elsewhere
ScanNet ==
    [ip \in ScanIps |->
        IF ip[1] = 192 /\ ip[3] = 1 THEN {5005, 4360, 89, 8080}
        ELSE IF ip[1] = 10 /\ ip[3] = 0 THEN {89}
        ELSE IF ip[1] = 172 THEN {80, 443}
        ELSE {}]

\* a semaphore that hands out a permit it does not have
acquire_ready_always(p) == TRUE

\* Semaphore::acquire returns when a permit is left (line 62)
acquire_ready(p) == p > 0

\* a task as spawned; panicked: the task ended in a panic, which its
\* JoinHandle reports as Err(JoinError)
NewTask == [st |-> "spawned", probed |-> <<>>, device |-> NoDevice, panicked |-> FALSE]

\* the hosts and networks scanned: the local subnet, and the addresses at
\* which the task panics in its device-info fetch
ScanCases ==
    {[local |-> <<192, 168, 0>>, panics |-> {}],
     [local |-> <<10, 1, 1>>, panics |-> {}],
     [local |-> <<192, 168, 0>>, panics |-> {<<192, 168, 1, 1>>}]}

InitScan ==
    /\ spc = "start"
    /\ \E case \in ScanCases : local_parts = case.local /\ panics = case.panics
    /\ net = ScanNet
    /\ subnets_to_scan = <<>>
    /\ handles = <<>>
    /\ tasks = <<>>
    /\ permits = 0
    /\ biometric_devices = <<>>
    /\ TimeIdle
    /\ NameIdle
    /\ dpc = "idle"
    /\ data_len = 0
    /\ total_size = 0
    /\ expected_records = 0
    /\ record_size = 0
    /\ actual_record_size = 0
    /\ offset = 0
    /\ taken = <<>>
    /\ session_id = 0
    /\ reply_id = 0
    /\ in_command = 0
    /\ in_data = <<>>
    /\ packet = <<>>
    /\ top = <<>>
    /\ acc = 0
    /\ cksum = 0
    /\ cpc = "idle"
    /\ in_password = <<0, 0>>
    /\ commkey = <<>>
    /\ SessionIdle

\* one call of check_biometric_ip alone, at an address with any set of open
\* ports
InitProbe ==
    /\ spc = "scanning"
    /\ local_parts = <<10, 1, 1>>
    /\ \E open \in SUBSET AllPorts : net = [ip \in {<<10, 1, 1, 1>>} |-> open]
    /\ subnets_to_scan = <<local_parts>>
    /\ handles = << <<10, 1, 1, 1>> >>
    /\ tasks = <<NewTask>>
    /\ permits = MAX_CONCURRENT
    /\ biometric_devices = <<>>
    /\ panics = {}
    /\ TimeIdle
    /\ NameIdle
    /\ dpc = "idle"
    /\ data_len = 0
    /\ total_size = 0
    /\ expected_records = 0
    /\ record_size = 0
    /\ actual_record_size = 0
    /\ offset = 0
    /\ taken = <<>>
    /\ session_id = 0
    /\ reply_id = 0
    /\ in_command = 0
    /\ in_data = <<>>
    /\ packet = <<>>
    /\ top = <<>>
    /\ acc = 0
    /\ cksum = 0
    /\ cpc = "idle"
    /\ in_password = <<0, 0>>
    /\ commkey = <<>>
    /\ SessionIdle

nonScanVars ==
    <<session_id, reply_id, in_command, in_data, packet, top, acc, cksum, cpc, in_password,
      commkey, sessVars, dpc, data_len, total_size, expected_records, record_size,
      actual_record_size, offset, taken, timeVars, nameVars>>

\* scan_network up to the end of its spawning loop (lines 120-153)
ScanStart ==
    /\ spc = "start"
    /\ subnets_to_scan' = add_common(<<local_parts>>, 1)
    /\ handles' = spawn_all(subnets_to_scan', 1, 1)
    /\ tasks' = [k \in 1..Len(handles') |-> NewTask]
    /\ permits' = MAX_CONCURRENT
    /\ spc' = "scanning"
    /\ UNCHANGED <<local_parts, net, panics, biometric_devices, nonScanVars>>

\* a task gets its permit (line 62)
Acquire ==
    /\ spc = "scanning"
    /\ \E k \in 1..Len(tasks) :
         /\ tasks[k].st = "spawned"
         /\ acquire_ready(permits)
         /\ tasks' = [tasks EXCEPT ![k].st = "holding"]
         /\ permits' = permits - 1
    /\ UNCHANGED <<spc, local_parts, net, panics, subnets_to_scan, handles, biometric_devices,
                   nonScanVars>>

\* a task that keeps its permit when it ends
release_kept(p) == p

\* the local _permit is dropped when check_biometric_ip returns or unwinds
\* (line 62)
release(p) == p + 1

\* a task probes its address, fetches the device info and returns, which
\* drops its permit (lines 65-106); a task that panics has no output
Check ==
    /\ spc = "scanning"
    /\ \E k \in 1..Len(tasks) :
         /\ tasks[k].st = "holding"
         /\ \E o \in {check_biometric_ip(net[handles[k]])} :
              tasks' = [tasks EXCEPT ![k] =
                           IF handles[k] \in panics
                           THEN [st |-> "done", probed |-> o.probed, device |-> NoDevice,
                                 panicked |-> TRUE]
                           ELSE [st |-> "done", probed |-> o.probed, device |-> o.device,
                                 panicked |-> FALSE]]
         /\ permits' = release(permits)
    /\ UNCHANGED <<spc, local_parts, net, panics, subnets_to_scan, handles, biometric_devices,
                   nonScanVars>>

\* a loop over the handles that ends at the first task that panicked
joined_until_error(ts) ==
    LET bad  == {k \in 1..Len(ts) : ts[k].panicked}
        stop == IF bad = {} THEN Len(ts) + 1 ELSE CHOOSE k \in bad : \A j \in bad : k <= j
    IN  SelectSeq([k \in 1..(stop - 1) |-> k], LAMBDA k : ts[k].device.found)

\* lines 160-165: the handles are awaited in order and the tasks that give
\* Ok(Some(device)) are kept, by their place in the list
joined(ts) ==
    SelectSeq([k \in 1..Len(ts) |-> k], LAMBDA k : ~ts[k].panicked /\ ts[k].device.found)

\* the handles are awaited in order and the devices found are returned
\* (lines 157-173)
Collect ==
    /\ spc = "scanning"
    /\ \A k \in 1..Len(tasks) : tasks[k].st = "done"
    /\ biometric_devices' =
         LET idx == joined(tasks)
         IN  [j \in 1..Len(idx) |-> [ip |-> handles[idx[j]],
                                     open_ports |-> tasks[idx[j]].device.open_ports]]
    /\ spc' = "returned"
    /\ UNCHANGED <<local_parts, net, panics, subnets_to_scan, handles, tasks, permits, nonScanVars>>

NextScan ==
    \/ ScanStart
    \/ Acquire
    \/ Check
    \/ Collect

NextProbe ==
    \/ Acquire
    \/ Check
    \/ Collect

\* ------------------------------------------------------------------------
\* The specifications
\* ------------------------------------------------------------------------
Next ==
    \/ Connect
    \/ Handshake
    \/ Authenticate
    \/ DisableDevice
    \/ ReadSizes
    \/ BufferedRead
    \/ ReadSimple
    \/ StreamFree
    \/ ReadChunk
    \/ ChunksFree
    \/ EmptyFree
    \/ EnableDevice
    \/ Exit

vars == <<session_id, reply_id, codecVars, sessVars>>

SpecCodec == InitCodec /\ [][NextCodec]_vars

SpecKey == InitKey /\ [][NextKey]_vars

SpecDecode == InitDecode /\ [][NextDecode]_vars

SpecTime == InitTime /\ [][NextTime]_vars

SpecName == InitName /\ [][NextName]_vars

\* A scan from a common subnet in which one task panics, under the
\* scheduling of its runtime.  The runtime polls every
\* task it was given until the task ends, and the semaphore wakes a waiting
\* task when a permit is returned, so a step that stays possible is taken:
\* a permit that is free while tasks wait is acquired, a task that holds a
\* permit ends (its probes run under a timeout, lines 49-57), and the loop
\* over the handles goes on once the tasks have ended.
InitScanFair ==
    /\ InitScan
    /\ local_parts \in Range(COMMON_SUBNETS)
    /\ panics # {}

SpecScanFair ==
    /\ InitScanFair
    /\ [][NextScan]_vars
    /\ WF_vars(ScanStart)
    /\ WF_vars(Acquire)
    /\ WF_vars(Check)
    /\ WF_vars(Collect)

SpecScan == InitScan /\ [][NextScan]_vars

SpecProbe == InitProbe /\ [][NextProbe]_vars

\* the decoder runs on its thread until it returns
SpecDecodeFair == InitDecode /\ [][NextDecode]_vars /\ WF_vars(NextDecode)

Spec == Init /\ [][Next]_vars

\* ------------------------------------------------------------------------
\* Properties of the codec (checked under SpecCodec)
\* ------------------------------------------------------------------------
\* the packet with the u16 field at 0-based offset i replaced by v
WithField(pkt, i, v) ==
    [k \in 1..Len(pkt) |-> IF k = i + 1 THEN v % 256
                           ELSE IF k = i + 2 THEN (v \div 256) % 256
                           ELSE pkt[k]]

\* C5: for every session state with current reply_id r in 0..65535, the
\* packet built for sending carries reply-id (r + 1) mod USHRT_MAX and the
\* session's current session_id.
C5_OutgoingReplyId ==
    cpc = "built" =>
        /\ U16At(packet, 6) = (reply_id + 1) % USHRT_MAX
        /\ U16At(packet, 4) = session_id

\* C8 as stated: in every packet built for sending, the checksum field equals
\* the checksum algorithm applied to that same packet (command, session_id,
\* the outgoing reply-id, payload) with the checksum field set to zero.
C8_ChecksumOfSentPacket ==
    cpc = "built" => U16At(packet, 2) = calc_checksum(WithField(packet, 2, 0))

\* C8 as amended: the checksum field equals the checksum algorithm applied to
\* the packet with the checksum field zeroed and the reply-id field holding
\* the session's current reply_id (the value before the increment), not the
\* outgoing reply-id the packet carries.
C8_ChecksumOfCurrentReplyId ==
    cpc = "built" =>
        U16At(packet, 2) = calc_checksum(WithField(WithField(packet, 2, 0), 6, reply_id))

\* a packet was built whose outgoing reply-id changes the checksum
C8_Witness ==
    /\ cpc = "built"
    /\ Len(in_data) > 0
    /\ calc_checksum(WithField(packet, 2, 0))
         # calc_checksum(WithField(WithField(packet, 2, 0), 6, reply_id))

\* The reference procedure of C9, written from its description in closed
\* form: the little-endian words, folded after each add; the trailing odd
\* byte; reduction into 1..USHRT_MAX; NOT as -x-1; the least non-negative
\* value reached by adding USHRT_MAX; the low 16 bits.
RefWords(d) == [k \in 1..(Len(d) \div 2) |-> d[2 * k - 1] + 256 * d[2 * k]]

RECURSIVE RefWordSum(_, _)
RefWordSum(ws, n) ==
    IF n = 0 THEN 0
    ELSE LET s == RefWordSum(ws, n - 1) + ws[n]
         IN  IF s > 65535 THEN s - 65535 ELSE s

RefOddByte(d) == IF Len(d) % 2 = 1 THEN d[Len(d)] ELSE 0

RefReduce(s) == IF s > 65535 THEN ((s - 1) % 65535) + 1 ELSE s

RefChecksum(d) ==
    LET s == RefReduce(RefWordSum(RefWords(d), Len(d) \div 2) + RefOddByte(d))
        n == (0 - s) - 1
    IN  (IF n < 0 THEN n % 65535 ELSE n) % 65536

\* C9: for every byte sequence (even or odd length, including empty),
\* calc_checksum returns the value of the reference procedure.
C9_ChecksumIsReference ==
    cpc = "summed" => cksum = RefChecksum(in_data)

\* calc_checksum was applied to an odd-length sequence whose last byte takes
\* the sum over USHRT_MAX
C9_Witness ==
    /\ cpc = "summed"
    /\ Len(in_data) = 3
    /\ in_data[1] + 256 * in_data[2] + in_data[3] > USHRT_MAX

\* C10 as stated: for the packet E8 03 00 00 00 00 FE FF the word sum folds
\* to 0x03E7 and the checksum algorithm yields 0xFC18.
C10_GoldenFC18 ==
    (cpc = "summed" /\ in_data = ConnectPacket) => (acc = 999 /\ cksum = 64536)

\* C10 as amended: the word sum folds to 0x03E7 and the algorithm yields
\* 0xFC17 (NOT gives -1000, and adding USHRT_MAX gives 64535).
C10_GoldenFC17 ==
    (cpc = "summed" /\ in_data = ConnectPacket) => (acc = 999 /\ cksum = 64535)

\* calc_checksum was applied to the CMD_CONNECT packet
C10_Witness ==
    cpc = "summed" /\ in_data = ConnectPacket

\* ------------------------------------------------------------------------
\* Properties of connect_and_fetch_attendance
\* ------------------------------------------------------------------------
\* C1: whenever fetch has returned after connect succeeded, the client has
\* written CMD_ENABLEDEVICE and then CMD_EXIT, also when a read failed.
C1_EnableThenExitBeforeReturn ==
    (stage = "returned" /\ hist.connected) => hist.exitAfterEnable

C3_ReplyIdOfConsumedReply ==
    (faults = 0 /\ hist.gotRid # NoRid) => hist.gotRid = hist.sentRid

\* C4 as stated: of two consecutive commands, the reply-id of the second
\* is that of the first plus 1 modulo USHRT_MAX.
C4_ConsecutiveReplyIds ==
    hist.nSent >= 2 => hist.sentRid = (hist.prevRid + 1) % USHRT_MAX

\* C4 amended: of two consecutive commands, the second repeats the reply-id
\* of the first when no response to the first was consumed, and carries
\* that reply-id plus 1 modulo USHRT_MAX when the last response consumed
\* echoed it.
C4_ReplyIdFollowsLastResponse ==
    hist.nSent >= 2 =>
        /\ ~hist.prevTouched => hist.sentRid = hist.prevRid
        /\ (hist.prevTouched /\ hist.ridAtSend = hist.prevRid)
              => hist.sentRid = (hist.prevRid + 1) % USHRT_MAX

\* a command was sent after one whose round-trip failed without a response
C4_Witness ==
    hist.nSent >= 2 /\ ~hist.prevTouched /\ hist.sentRid = hist.prevRid /\ hist.dropped

\* C6 as stated: a session starts with reply_id USHRT_MAX - 1, its first
\* command carries reply-id USHRT_MAX, and after an echoed reply the next
\* carries 0.
C6_FirstReplyIdsFromUshrtMax ==
    /\ stage = "connect" => reply_id = USHRT_MAX - 1
    /\ hist.nSent = 1 => hist.sentRid = USHRT_MAX
    /\ (hist.nSent = 2 /\ hist.prevTouched /\ hist.ridAtSend = hist.prevRid)
          => hist.sentRid = 0

\* C6 amended: a session starts with reply_id USHRT_MAX - 1, its first
\* command carries reply-id 0, and after an echoed reply the next carries 1.
C6_FirstReplyIdsFromZero ==
    /\ stage = "connect" => reply_id = USHRT_MAX - 1
    /\ hist.nSent = 1 => hist.sentRid = 0
    /\ (hist.nSent = 2 /\ hist.prevTouched /\ hist.ridAtSend = hist.prevRid)
          => hist.sentRid = 1

\* the second command of a session was sent after an echoed reply
C6_Witness ==
    hist.nSent = 2 /\ hist.prevTouched /\ hist.ridAtSend = hist.prevRid /\ hist.sentRid = 1

\* C7, for a session whose id the device has assigned: from the return of
\* connect to disconnect, no step changes session_id.
C7_SessionIdConstant ==
    [][(hist.connected /\ session_id # 0 /\ stage \notin {"enable", "exit", "returned"})
          => session_id' = session_id]_vars

\* ------------------------------------------------------------------------
\* Properties of make_commkey
\* ------------------------------------------------------------------------
\* a 16-bit value with its bits in reverse order
RECURSIVE RefReverse16(_, _)
RefReverse16(x, n) ==
    IF n = 0 THEN 0 ELSE (x % 2) * (2 ^ (n - 1)) + RefReverse16(x \div 2, n - 1)

\* a ^ b on bytes, bit by bit
RefXor(a, b) ==
    LET bit(i) == ((a \div (2 ^ i)) + (b \div (2 ^ i))) % 2
    IN  bit(0) + 2 * bit(1) + 4 * bit(2) + 8 * bit(3)
        + 16 * bit(4) + 32 * bit(5) + 64 * bit(6) + 128 * bit(7)

\* The reference derivation: the reversed password has the reversed low
\* half on top and the reversed high half below; add the session id modulo
\* 2^32; XOR the little-endian bytes with "ZKSO"; swap the halves; XOR bytes
\* 0, 1 and 3 with 50 and set byte 2 to 50, which drops the lowest byte.
RefCommkey(password, sid) ==
    LET low  == RefReverse16(password[1], 16) + sid
        high == (RefReverse16(password[2], 16) + (IF low >= 65536 THEN 1 ELSE 0)) % 65536
        b1   == RefXor((low % 65536) \div 256, 75)
        b2   == RefXor(high % 256, 83)
        b3   == RefXor(high \div 256, 79)
    IN  <<RefXor(b2, 50), RefXor(b3, 50), 50, RefXor(b1, 50)>>

\* C11: make_commkey returns 4 bytes, those of the reference derivation.
C11_CommkeyIsReference ==
    cpc = "keyed" =>
        /\ Len(commkey) = 4
        /\ commkey = RefCommkey(in_password, session_id)

\* a key whose reversed password plus the session id carries into the upper
\* half and wraps at 2^32
C11_Witness ==
    /\ cpc = "keyed"
    /\ in_password = <<65535, 65535>>
    /\ session_id = 1
    /\ commkey = <<RefXor(83, 50), RefXor(79, 50), 50, RefXor(75, 50)>>

\* ------------------------------------------------------------------------
\* Properties of the handshake
\* ------------------------------------------------------------------------
\* C12: once do_handshake has returned, connect succeeded exactly when the
\* response to CMD_CONNECT was CMD_ACK_OK, or was CMD_ACK_UNAUTH and the
\* response to CMD_AUTH was CMD_ACK_OK; CMD_AUTH is written at most once,
\* only after CMD_ACK_UNAUTH, and carries the commkey of password 0 and the
\* session id of that response.
C12_HandshakeOutcome ==
    /\ stage \notin {"tcp", "connect", "auth"} /\ hist.nSent > 0
          => (hist.connected <=>
                 \/ hist.hs.reply = CMD_ACK_OK
                 \/ (hist.hs.reply = CMD_ACK_UNAUTH /\ hist.hs.authReply = CMD_ACK_OK))
    /\ hist.hs.auths <= 1
    /\ stage = "auth" => (hist.hs.reply = CMD_ACK_UNAUTH /\ hist.hs.auths = 0)
    /\ hist.hs.auths = 1
          => /\ hist.hs.reply = CMD_ACK_UNAUTH
             /\ hist.hs.keySid = hist.hs.sid
             /\ hist.hs.key = RefCommkey(<<0, 0>>, hist.hs.sid)
    /\ (stage = "returned" /\ ~hist.connected) => result = "err"

\* connect succeeded through CMD_AUTH on a session the device named
C12_Witness ==
    /\ hist.connected
    /\ hist.hs.reply = CMD_ACK_UNAUTH
    /\ hist.hs.auths = 1
    /\ hist.hs.sid = DevSession
    /\ hist.hs.authReply = CMD_ACK_OK

\* C13: on every receive path a frame whose outer header does not carry both
\* magics is rejected with an error, and none of its bytes are taken for a
\* command, a reply-id or data.  As a state predicate: the client has parsed
\* no frame without the magics.
C13_NoFrameWithoutMagicsParsed == ~hist.bad

\* C14: when the first reply to CMD_DATA_WRRQ is CMD_DATA, the read returns
\* exactly the whole payload of that frame, takes exactly that frame from
\* the stream, and sends no CMD_DATA_RDY and no CMD_FREE_DATA.  Stated for a
\* device that keeps to the protocol.
C14_DataReplyReturnedWhole ==
    (faults = 0 /\ hist.sentCmd = CMD_DATA_WRRQ /\ hist.first.cmd = CMD_DATA)
        => /\ pc = "cmd"
           /\ hist.first.ret = hist.first.plen
           /\ hist.first.exact

\* C15: when the first reply to CMD_DATA_WRRQ is CMD_ACK_OK with fewer than
\* 5 payload bytes, the client consumes at most 25 further frames and stops
\* at the first CMD_DATA (returning its payload), CMD_PREPARE_DATA (streamed
\* mode) or CMD_ACK_OK with at least 5 payload bytes (chunked mode); when no
\* such frame arrives the read returns an empty result and enters neither
\* mode.
C15_DrainLoopOutcome ==
    (/\ hist.sentCmd = CMD_DATA_WRRQ
     /\ hist.first.cmd = CMD_ACK_OK
     /\ hist.first.dlen < 5)
        => /\ hist.first.seen <= DRAIN_LIMIT
           /\ hist.first.stop = CMD_DATA => pc = "cmd" /\ hist.first.ret >= 0
           /\ hist.first.stop = CMD_PREPARE_DATA => pc # "chunk"
           /\ hist.first.stop = CMD_ACK_OK => pc # "stream_free"
           /\ hist.first.stop = NoCmd => pc = "empty_free"

\* C16: CMD_DATA_RDY is sent (chunked mode is entered) only after a
\* CMD_ACK_OK reply of at least 5 payload bytes whose size field is above 0
\* and below the limit; a reply with any other command code never starts
\* chunked mode.
C16_ChunkedModeOnlyAfterAckOk ==
    (hist.sentCmd = CMD_DATA_WRRQ /\ pc = "chunk")
        => /\ hist.first.by = CMD_ACK_OK
           /\ bulk.size > 0
           /\ bulk.size < SIZE_LIMIT

\* C17: a bulk size above 100 MiB, announced in the size field of CMD_ACK_OK
\* or of CMD_PREPARE_DATA, is refused: no CMD_DATA_RDY is sent for it and no
\* streamed data is accumulated for it.
C17_HugeSizeRefused ==
    /\ pc = "chunk" => bulk.size < HugeSize
    /\ pc = "stream_free" /\ bulk.size >= HugeSize => bulk.got = 0

\* the requests the contract prescribes for an announced size: a full chunk
\* at each multiple of MAX_CHUNK below size, then the remainder if there is
\* one
RefRequests(size) ==
    [k \in 1..(size \div MAX_CHUNK) |-> <<(k - 1) * MAX_CHUNK, MAX_CHUNK>>]
    \o (IF size % MAX_CHUNK > 0
        THEN << <<size - (size % MAX_CHUNK), size % MAX_CHUNK>> >>
        ELSE <<>>)

\* requests that start at 0, follow each other without gap or overlap, are
\* none of length 0, and end at size
RECURSIVE Covers(_, _, _)
Covers(reqs, from, size) ==
    IF reqs = <<>> THEN from = size
    ELSE /\ Head(reqs)[1] = from
         /\ Head(reqs)[2] > 0
         /\ Covers(Tail(reqs), from + Head(reqs)[2], size)

\* C18: for an announced size S in chunked mode the CMD_DATA_RDY requests
\* are (k * MAX_CHUNK, MAX_CHUNK) for k = 0 .. S div MAX_CHUNK - 1 in
\* ascending order, then (S - S mod MAX_CHUNK, S mod MAX_CHUNK) exactly when
\* S mod MAX_CHUNK > 0, then one CMD_FREE_DATA after which the read returns;
\* the ranges are contiguous, do not overlap, sum to S and none is empty.
\* While the requests are under way they are the first ones of that list.
C18_ChunkRequests ==
    /\ pc = "chunk"
          => /\ Len(bulk.reqs) <= Len(RefRequests(bulk.size))
             /\ bulk.reqs = SubSeq(RefRequests(bulk.size), 1, Len(bulk.reqs))
    /\ (hist.sentCmd = CMD_FREE_DATA /\ hist.chunks.size > 0)
          => /\ hist.chunks.reqs = RefRequests(hist.chunks.size)
             /\ Covers(hist.chunks.reqs, 0, hist.chunks.size)
             /\ pc = "cmd"

\* a read_chunks of one full chunk and a remainder has sent its CMD_FREE_DATA
C18_Witness ==
    /\ hist.sentCmd = CMD_FREE_DATA
    /\ hist.chunks.size = MAX_CHUNK + SmallSize
    /\ Len(hist.chunks.reqs) = 2

\* a read_chunks of a size that MAX_CHUNK divides has sent its CMD_FREE_DATA
C18_WitnessNoTail ==
    /\ hist.sentCmd = CMD_FREE_DATA
    /\ hist.chunks.size = MAX_CHUNK
    /\ Len(hist.chunks.reqs) = 1

\* C19: every chunk read that returns successfully for a request of length
\* L returns exactly L bytes, whatever the variant of the reply; hence a
\* successful chunked read of announced size S returns exactly S bytes.  As
\* a state predicate: while read_chunks is under way, the bytes received are
\* the bytes asked for.
C19_ChunkReadReturnsRequestedLength ==
    pc = "chunk" => bulk.got = bulk.start

\* C20: in streamed mode the client reads frames, appending every CMD_DATA
\* payload, until it has consumed a CMD_ACK_OK frame, and only then sends
\* CMD_FREE_DATA, once.  As a state predicate, for a device that keeps to
\* the protocol: when CMD_FREE_DATA is about to be sent, the loop has read a
\* CMD_ACK_OK.
C20_FreeDataAfterAckOk ==
    (faults = 0 /\ pc = "stream_free") => bulk.closed

\* the reads of get_attendance in the order the contract prescribes
AttOrder == <<"simple", "fct0", "fct1">>

\* C21: reading attendance first sends a direct CMD_ATTLOG_RRQ; the bulk
\* read with fct 0 is issued exactly when the direct read returned fewer
\* than 4 bytes and the device reported more than 0 records; the bulk read
\* with fct 1 exactly when, in addition, the fct 0 read returned fewer than
\* 4 bytes; the reads come in that order and are never more than three.
C21_AttendanceReadOrder ==
    LET a == hist.att
        n == Len(a)
    IN  /\ n <= 3
        /\ \A i \in 1..n : a[i].kind = AttOrder[i]
        /\ \A i \in 2..n : a[i - 1].out = "short" /\ record_count > 0
        /\ (stage \in {"enable", "exit", "returned"} /\ n \in {1, 2})
              => ~(a[n].out = "short" /\ record_count > 0)
        /\ stage \in {"enable", "exit"} => n >= 1

\* all three reads were made and get_attendance went on to decode
C21_Witness ==
    /\ stage = "enable"
    /\ Len(hist.att) = 3
    /\ hist.att[3].out = "data"

\* C22: attendance decoding terminates and returns a (possibly empty) list
\* of records for every blob and every reported record count, also when
\* total_size divided by the count is 0.
C22_AttendanceDecodingTerminates == (dpc = "attendance") ~> (dpc = "att_done")

\* C23: when the computed attendance record size is not 8, 16 or 40,
\* decoding reports an error; it never decodes the blob with a layout or a
\* stride that is not the computed record size.  As a state predicate: with
\* such a size no record is pushed and get_attendance does not return Ok.
C23_UnsupportedRecordSizeRejected ==
    (dpc \in {"att_loop", "att_done"} /\ data_len >= 4 /\ record_size \notin {8, 16, 40})
        => (taken = <<>> /\ dpc # "att_done")

\* the record size the contract prescribes: the quotient when the count and
\* total_size are both above 0 (the count as the unsigned value the client
\* holds), else the first of 40, 16, 8 that divides the length of the body
RefRecordSizes(body, total, n) ==
    IF n # 0 /\ total > 0
    THEN {IF n < 0 THEN 0 ELSE total \div n}
    ELSE IF body % 40 = 0 THEN {40}
    ELSE IF body % 16 = 0 THEN {16}
    ELSE IF body % 8 = 0 THEN {8}
    ELSE Nat

\* C24: the attendance record size is total_size / expected_records when
\* both are above 0, otherwise the first of 40, 16, 8 that divides the
\* length of the body (the blob after its first 4 bytes); when that size is
\* 8, 16 or 40, decoding yields exactly floor(body length / record size)
\* records in blob order, reads nothing past the end of the buffer and drops
\* a trailing partial record.
C24_AttendanceRecordSizeAndCount ==
    (dpc \in {"att_loop", "att_done"} /\ data_len >= 4)
        => LET body == data_len - 4
           IN  /\ record_size \in RefRecordSizes(body, total_size, expected_records)
               /\ record_size \in {8, 16, 40}
                     => /\ \A i \in 1..Len(taken) :
                              /\ taken[i] = (i - 1) * record_size
                              /\ taken[i] + record_size <= body
                        /\ dpc = "att_done" => Len(taken) = body \div record_size

\* a blob of two 16-byte records and 8 more bytes was decoded to two records
C24_Witness ==
    /\ dpc = "att_done"
    /\ data_len = 4 + 40
    /\ record_size = 16
    /\ Len(taken) = 2

\* C25: when the device reports a record count of 0 and the attendance read
\* nevertheless returns a non-empty blob, the fetch yields 0 attendance
\* records and completes without error.
C25_ZeroCountYieldsNoRecords ==
    (dpc = "att_done" /\ expected_records = 0 /\ data_len > 0) => taken = <<>>

\* the users of a decoded blob: one per whole record of the body, in blob order
UsersInOrder ==
    /\ \A i \in 1..Len(taken) :
          /\ taken[i] = (i - 1) * record_size
          /\ taken[i] + record_size <= data_len - 4
    /\ dpc = "users_done" => Len(taken) = (data_len - 4) \div record_size

\* C26: for every user blob, users are parsed with 72-byte records
\* if and only if the body (the blob after its first 4 bytes) has 72 bytes or
\* more and a length that is a multiple of 72, whatever the 4-byte header
\* says, otherwise with 28-byte records; exactly floor(body length / record
\* size) users are returned in blob order, and a blob of 4 bytes or fewer
\* yields an empty user list.
C26_UserRecordSizeFromBodyAlone ==
    /\ (dpc \in {"user_loop", "users_done"} /\ data_len > 4)
          => /\ record_size = (IF data_len - 4 >= 72 /\ (data_len - 4) % 72 = 0 THEN 72 ELSE 28)
             /\ UsersInOrder
    /\ (dpc = "users_done" /\ data_len <= 4) => taken = <<>>

\* C27: for every year y in 2000..2099, every valid calendar date and every
\* valid (h, m, s), decoding the packed value
\* ((((y-2000)*12 + (mo-1))*31 + (d-1))*24 + h)*3600 + m*60 + s returns
\* exactly (y, mo, d, h, m, s); in particular 0 decodes to 2000-01-01 00:00:00
\* and 2678400 to 2000-02-01 00:00:00.
C27_DecodeTimeRoundTrip ==
    tpc = "time_done"
        => \A y \in TimeYears, mo \in TimeMonths, d \in TimeDays,
              h \in TimeHours, mi \in TimeMinutes, s \in TimeSeconds :
                (ValidDate(y, mo, d) /\ timestamp = encode_time(y, mo, d, h, mi, s))
                    => dt = [year |-> y, month |-> mo, day |-> d,
                             hour |-> h, minute |-> mi, second |-> s]

\* the tasks that hold a permit
Holding == {k \in 1..Len(tasks) : tasks[k].st = "holding"}

\* C28: at every moment of a scan at most MAX_CONCURRENT tasks hold a permit
\* of the semaphore (are probing ports or fetching the device info); a task
\* attempts no connection before it has its permit, and the permit is
\* released on every path on which the task ends.
C28_PermitsBoundTheProbes ==
    spc \in {"scanning", "returned"}
        => /\ Cardinality(Holding) <= MAX_CONCURRENT
           /\ permits = MAX_CONCURRENT - Cardinality(Holding)
           /\ \A k \in 1..Len(tasks) : tasks[k].st = "spawned" => tasks[k].probed = <<>>

\* every permit is taken while a task still waits, and tasks with and
\* without a device have ended
C28_Witness ==
    /\ spc = "scanning"
    /\ Cardinality(Holding) = MAX_CONCURRENT
    /\ \E k \in 1..Len(tasks) : tasks[k].st = "spawned"
    /\ \E k \in 1..Len(tasks) : tasks[k].st = "done" /\ tasks[k].device.found
    /\ \E k \in 1..Len(tasks) : tasks[k].st = "done" /\ ~tasks[k].device.found

\* the position of a port in a list, 0 when it is not in it
PosIn(list, p) ==
    IF p \in Range(list) THEN CHOOSE k \in 1..Len(list) : list[k] = p ELSE 0

\* C29: for each candidate address a device is reported if and only if at
\* least one of the ZKTeco ports 4370, 4360, 5005, 5010, 89 is open; the main
\* port, used for the device-info fetch, is the first open port in that list
\* order; the web ports 80, 8080, 443, 8443 are probed only after a ZKTeco
\* port was found open; the reported open_ports list is sorted ascending, has
\* no duplicates and contains the main port.
C29_DeviceReportedByItsZktecoPorts ==
    \A k \in 1..Len(tasks) :
        tasks[k].st = "done"
            => LET open   == net[handles[k]]
                   device == tasks[k].device
                   probed == tasks[k].probed
                   ports  == device.open_ports
               IN  /\ device.found <=> open \cap Range(ZKTECO_PORTS) # {}
                   /\ device.found
                        => /\ device.main_port \in open \cap Range(ZKTECO_PORTS)
                           /\ \A p \in open \cap Range(ZKTECO_PORTS) :
                                 PosIn(ZKTECO_PORTS, device.main_port) <= PosIn(ZKTECO_PORTS, p)
                           /\ device.info_port = device.main_port
                           /\ \A i, j \in 1..Len(ports) : i < j => ports[i] < ports[j]
                           /\ device.main_port \in Range(ports)
                   /\ \A i \in 1..Len(probed) :
                         probed[i] \in Range(OTHER_PORTS)
                            => \E j \in 1..(i - 1) :
                                  probed[j] \in open \cap Range(ZKTECO_PORTS)

\* a device whose first open ZKTeco port is the last of the list, with a
\* lower web port open as well, was reported
C29_Witness ==
    /\ Len(tasks) = 1
    /\ tasks[1].st = "done"
    /\ tasks[1].device.found
    /\ tasks[1].device.main_port = 5010
    /\ tasks[1].device.open_ports = <<80, 89, 5010>>

\* C30: the list of subnets scanned contains the local /24 and all six
\* common subnets with no duplicates (also when the local subnet is one of
\* the common ones), and every host number 1 .. LastHost of every listed
\* subnet is probed by exactly one task, so no address is probed twice and
\* none is skipped.
C30_EveryAddressProbedOnce ==
    spc \in {"scanning", "returned"}
        => /\ Range(subnets_to_scan) = {local_parts} \cup Range(COMMON_SUBNETS)
           /\ Cardinality(Range(subnets_to_scan)) = Len(subnets_to_scan)
           /\ Len(tasks) = Len(handles)
           /\ Range(handles) = {Append(s, h) : s \in Range(subnets_to_scan), h \in 1..LastHost}
           /\ Cardinality(Range(handles)) = Len(handles)
           /\ spc = "returned"
                => \A k \in 1..Len(tasks) : tasks[k].st = "done" /\ tasks[k].probed # <<>>

\* a scan from a local subnet that is one of the common ones has returned
C30_Witness ==
    /\ spc = "returned"
    /\ local_parts \in Range(COMMON_SUBNETS)
    /\ Len(subnets_to_scan) = Len(COMMON_SUBNETS)
    /\ Len(handles) = Len(COMMON_SUBNETS) * LastHost

\* the steps of a fetch in the order of the contract, with and without the
\* CMD_AUTH of the handshake
FetchOrders ==
    {<<"connect", "disable", "sizes", "users", "attendance", "enable", "exit">>,
     <<"connect", "auth", "disable", "sizes", "users", "attendance", "enable", "exit">>}

\* the position of a step among the steps written, 0 when it was not
StepAt(s) ==
    IF \E k \in 1..Len(hist.order) : hist.order[k] = s
    THEN CHOOSE k \in 1..Len(hist.order) : hist.order[k] = s
    ELSE 0

\* C31: on every successful fetch the commands appear on the wire in the
\* order CMD_CONNECT, CMD_DISABLEDEVICE, CMD_GET_FREE_SIZES, the read of the
\* users, the read(s) of the attendance, CMD_ENABLEDEVICE, CMD_EXIT; no data
\* read is sent before CMD_DISABLEDEVICE, and no command other than CMD_EXIT
\* is sent after CMD_ENABLEDEVICE.
C31_CommandOrder ==
    /\ (stage = "returned" /\ result = "ok") => hist.order \in FetchOrders
    /\ \A k \in 1..Len(hist.order) :
          /\ hist.order[k] \in {"users", "attendance"}
                => StepAt("disable") \in 1..(k - 1)
          /\ (k > 1 /\ hist.order[k - 1] = "enable") => hist.order[k] = "exit"
          /\ hist.order[k] = "exit" => k = Len(hist.order)

\* a fetch that had to authenticate and read the attendance more than once
\* has returned its records
C31_Witness ==
    /\ stage = "returned"
    /\ result = "ok"
    /\ hist.hs.auths = 1
    /\ Len(hist.att) >= 2
    /\ hist.order \in FetchOrders

\* C32: disconnect sends CMD_ENABLEDEVICE before CMD_EXIT, still attempts
\* CMD_EXIT when the CMD_ENABLEDEVICE round-trip fails or is answered with
\* a code that is not the ACK, and always returns success whatever the two
\* round-trips return.
C32_DisconnectBestEffort ==
    /\ stage = "exit"
          => /\ hist.sentCmd = CMD_ENABLEDEVICE
             /\ hist.disc.enable # "none"
             /\ hist.disc.exit = "none"
    /\ hist.disc.exit # "none"
          => /\ stage = "returned"
             /\ hist.sentCmd = CMD_EXIT
             /\ hist.exitAfterEnable
             /\ hist.disc.enable # "none"
             /\ result = "ok"
    /\ hist.disc.enable # "none" => stage \in {"exit", "returned"}
    /\ (stage = "returned" /\ hist.disc.enable # "none") => hist.disc.exit # "none"

\* disconnect returned after a CMD_ENABLEDEVICE round-trip that failed
C32_Witness ==
    /\ stage = "returned"
    /\ hist.disc.enable = "err"
    /\ hist.disc.exit = "ack"
    /\ result = "ok"

\* C33: every bulk read that has entered chunked mode or streamed mode sends
\* CMD_FREE_DATA before it returns, on every exit path, including when a
\* chunk read or a stream read fails part-way through the transfer.
C33_FreeDataOnEveryExit ==
    (hist.xfer.mode # "none" /\ hist.xfer.ret # "open") => hist.xfer.freed

\* C34: once all the bytes announced of a bulk transfer have been received,
\* a failure of the closing CMD_FREE_DATA round-trip never makes the bulk
\* read fail or discard the data received, in chunked mode and in streamed
\* mode alike.
C34_FreeDataFailureKeepsData ==
    (hist.xfer.mode # "none" /\ hist.xfer.full /\ hist.xfer.free = "err")
        => hist.xfer.ret = "ok"

\* the commands written by send_command alone
SendCommands ==
    {CMD_CONNECT, CMD_AUTH, CMD_DISABLEDEVICE, CMD_GET_FREE_SIZES, CMD_ATTLOG_RRQ,
     CMD_FREE_DATA, CMD_ENABLEDEVICE, CMD_EXIT}

\* a receive that returns an error leaves session_id and reply_id as they are
IdsKept(r) == r.st = "ok" \/ (r.c.sid = session_id /\ r.c.rid = reply_id)

\* C35: when a command round-trip (send_command) or a single-packet receive
\* (recv_packet) returns an error (write or read failure, bad outer magic,
\* inner packet shorter than 8 bytes), session_id and reply_id are exactly
\* what they were before the call.
C35_ErrorLeavesIds ==
    /\ (hist.nSent > 0 /\ hist.sentCmd \in SendCommands /\ hist.gotRid = NoRid)
          => (reply_id = hist.ridAtSend /\ session_id = hist.sidAtSend)
    /\ \A k \in 1..Len(rx) :
          /\ IdsKept(recv_packet(Ctx(SubSeq(rx, k, Len(rx)))))
          /\ IdsKept(recv_reply(Ctx(SubSeq(rx, k, Len(rx)))))

\* the round-trip of read_sizes returned an error, which fetch dropped
C35_Witness ==
    /\ stage = "users"
    /\ hist.sentCmd = CMD_GET_FREE_SIZES
    /\ hist.gotRid = NoRid
    /\ hist.dropped
    /\ faults = 1
    /\ reply_id = hist.ridAtSend
    /\ rx = <<>>

\* C36: reply_id is only ever assigned the reply-id field of a frame that
\* was received whole: after a read_chunk_pyzk that assigned it, reply_id is
\* the reply-id of one of the whole frames that read was given, so a probe
\* for the trailing ACK that reads a header and no packet leaves it alone;
\* and a chunk that came whole in its CMD_DATA frame is returned whatever
\* follows it.
C36_ReplyIdFromWholeFrames ==
    hist.probe.st # "none" =>
       /\ hist.touched => reply_id \in hist.probe.whole
       /\ hist.probe.data => hist.probe.st = "ok"

\* C37: an attendance record whose user_id text equals the user_id of some
\* user is given that user's name, also when another user's uid has the same
\* decimal text.
C37_NameByUserId ==
    (npc = "named" /\ record.fmt \in {16, 40})
       => \A k \in 1..Len(users) :
             users[k].user_id = (IF record.fmt = 16 THEN to_string(record.id) ELSE record.text)
                => user_name = users[k].name

\* C38: decoding is deterministic: the value decode_time returned for the
\* packed time t is the value it returns for t in every run on the same
\* host, whatever the clock of the host shows when it runs.
C38_DecodeTimeDependsOnlyOnT ==
    tpc = "time_done" => \A now \in Clocks : decode_time(zone, timestamp, now) = dt

\* the addresses of the devices returned, in the order of the list
ReturnedIps == [j \in 1..Len(biometric_devices) |-> biometric_devices[j].ip]

\* the addresses at which a device answers and the task does not panic
Reportable ==
    {ip \in Range(handles) : ip \notin panics /\ net[ip] \cap Range(ZKTECO_PORTS) # {}}

\* C39: the list scan returns is in the order the tasks were spawned
\* (subnets in list order, host numbers ascending) whatever the order in
\* which the tasks ended, holds at most one entry per address, and a task
\* that fails or panics neither fails the scan nor removes the result of
\* another address.
C39_ResultsInSpawnOrder ==
    spc = "returned"
       => /\ \A s \in 1..Len(subnets_to_scan), h \in 1..LastHost :
                handles[(s - 1) * LastHost + h] = Append(subnets_to_scan[s], h)
          /\ \A i, j \in 1..Len(biometric_devices) :
                i < j => PosIn(handles, ReturnedIps[i]) < PosIn(handles, ReturnedIps[j])
          /\ Cardinality(Range(ReturnedIps)) = Len(ReturnedIps)
          /\ Range(ReturnedIps) = Reportable

\* a scan has returned in which the task of one device panicked and the
\* device of a task spawned after it is in the list
C39_Witness ==
    /\ spc = "returned"
    /\ \E k \in 1..Len(tasks) :
          /\ tasks[k].panicked
          /\ net[handles[k]] \cap Range(ZKTECO_PORTS) # {}
          /\ \E j \in (k + 1)..Len(tasks) : handles[j] \in Range(ReturnedIps)

\* C40: when every port probe and every device-info fetch terminates, every
\* task spawned eventually acquires a permit and completes (a task goes from
\* spawned to holding its permit to done and never back, so all of them are
\* done at some moment), and scan eventually returns, after all tasks have
\* completed, also with more tasks than permits.
C40_ScanReturns ==
    /\ (spc = "scanning") ~> (\A k \in 1..Len(tasks) : tasks[k].st = "done")
    /\ (spc = "start")
          ~> (spc = "returned" /\ \A k \in 1..Len(tasks) : tasks[k].st = "done")

\* every permit is out, more tasks wait than there are permits, and none
\* has ended yet
C40_Witness ==
    /\ spc = "scanning"
    /\ permits = 0
    /\ Cardinality({k \in 1..Len(tasks) : tasks[k].st = "spawned"}) > MAX_CONCURRENT
    /\ \A k \in 1..Len(tasks) : tasks[k].st # "done"

====
